---- MODULE Spec2Model ----
(***************************************************************************)
(* zine-prep: the imposition layout engine.                                *)
(*                                                                         *)
(* One processing run is modelled as the async function `process` of the   *)
(* selected format, cut at its awaits: load -> (checks, layout) -> create  *)
(* -> compose loop -> save -> done.  An output face is the sequence of     *)
(* drawPage calls made on it; a blank slot is a slot with no drawPage.     *)
(* Progress percentages are exact rationals num/den.  Progress messages    *)
(* are display text and are not part of an event here.                     *)
(***************************************************************************)
EXTENDS Integers, Sequences, FiniteSets, TLC

\* ------------------------------------------------------------------ bounds
\* largest source page count explored
MaxPages == 12

\* ------------------------------------------------- constants of the source
LETTER_WIDTH == 612
LETTER_HEIGHT == 792
\* landscape output (saddle-stitch, half-fold, two-up-proof)
OUTPUT_WIDTH == LETTER_HEIGHT
OUTPUT_HEIGHT == LETTER_WIDTH
HALF_WIDTH == OUTPUT_WIDTH \div 2
\* mini-zine panels
PANEL_WIDTH == LETTER_WIDTH \div 4
PANEL_HEIGHT == LETTER_HEIGHT \div 2
\* accordion
MAX_PANELS_PER_SIDE == 4
\* quarter-booklet (portrait output, 2x2 grid)
QB_OUTPUT_WIDTH == LETTER_WIDTH
QB_OUTPUT_HEIGHT == LETTER_HEIGHT
QUARTER_WIDTH == QB_OUTPUT_WIDTH \div 2
QUARTER_HEIGHT == QB_OUTPUT_HEIGHT \div 2
MINI_PAGE_WIDTH == QUARTER_HEIGHT
MINI_PAGE_HEIGHT == QUARTER_WIDTH
MINI_HALF_WIDTH == MINI_PAGE_WIDTH \div 2

\* `number | null`: page numbers are >= 1, so 0 stands for null (blank)
null == 0

\* the exported processors: the id each declares and the process function it carries
\* (SS saddle-stitch, UI un-impose, MZ mini-zine, HF half-fold, QB quarter-booklet,
\* TU two-up-proof, AC accordion)
saddleStitchProcessor == [ id |-> "saddle-stitch", process |-> "SS" ]

unImposeProcessor == [ id |-> "un-impose", process |-> "UI" ]

miniZineProcessor == [ id |-> "mini-zine", process |-> "MZ" ]

halfFoldProcessor == [ id |-> "half-fold", process |-> "HF" ]

quarterBookletProcessor == [ id |-> "quarter-booklet", process |-> "QB" ]

twoUpProofProcessor == [ id |-> "two-up-proof", process |-> "TU" ]

accordionProcessor == [ id |-> "accordion", process |-> "AC" ]

\* processorMap.get(id) of an id that is not a key
undefined == [ id |-> "", process |-> "" ]

\* the registry: formatProcessors, in registration order
formatProcessors ==
  << saddleStitchProcessor, unImposeProcessor, miniZineProcessor, halfFoldProcessor,
     quarterBookletProcessor, twoUpProofProcessor, accordionProcessor >>

getProcessor_firstRegistered(id) == formatProcessors[1]

\* processorMap = new Map(formatProcessors.map(p => [p.id, p])); processorMap.get(id):
\* the last registered processor of that id, undefined when there is none
getProcessor(id) ==
  LET hits == { k \in 1..Len(formatProcessors) : formatProcessors[k].id = id }
  IN IF hits = {} THEN undefined
     ELSE formatProcessors[CHOOSE k \in hits : \A m \in hits : m <= k]

\* format ids a caller may pass to processPdf: the registered ones and one that is not
RequestIds == { formatProcessors[k].id : k \in 1..Len(formatProcessors) } \cup { "poster" }

\* page sizes (width, height) of the documents explored: letter portrait and landscape,
\* square, A4 portrait, a tall strip
PageSizes == { <<612, 792>>, <<792, 612>>, <<600, 600>>, <<595, 842>>, <<200, 792>> }

\* ------------------------------------------------------------ arithmetic
\* Math.ceil(a / b) for integers a >= 0, b > 0
MathCeilDiv(a, b) == IF a % b = 0 THEN a \div b ELSE (a \div b) + 1

MathMin(a, b) == IF a <= b THEN a ELSE b

\* ------------------------------------------------- imposition (three copies)
\* imposition module
padToMultipleOf4(pageCount) == MathCeilDiv(pageCount, 4) * 4

calculateImposition(originalPageCount) ==
  LET paddedPages == padToMultipleOf4(originalPageCount)
      numSheets == paddedPages \div 4
      sheet(i) ==
        LET frontLeft == paddedPages - 2 * i
            frontRight == 1 + 2 * i
            backLeft == 2 + 2 * i
            backRight == paddedPages - 1 - 2 * i
        IN [ front |-> [ left |-> IF frontLeft <= originalPageCount THEN frontLeft ELSE null,
                         right |-> IF frontRight <= originalPageCount THEN frontRight ELSE null ],
             back |-> [ left |-> IF backLeft <= originalPageCount THEN backLeft ELSE null,
                        right |-> IF backRight <= originalPageCount THEN backRight ELSE null ] ]
  IN [ sheets |-> [ k \in 1..numSheets |-> sheet(k - 1) ],
       totalPages |-> originalPageCount,
       paddedPages |-> paddedPages ]

\* saddle-stitch copy
SS_padToMultipleOf4_floor(pageCount) == (pageCount \div 4) * 4

SS_padToMultipleOf4(pageCount) == MathCeilDiv(pageCount, 4) * 4

SS_sheet_swapped(i, paddedPages, originalPageCount) ==
  LET frontLeft == paddedPages - 2 * i
      frontRight == 1 + 2 * i
      backLeft == 2 + 2 * i
      backRight == paddedPages - 1 - 2 * i
  IN [ front |-> [ left |-> IF frontLeft <= originalPageCount THEN frontLeft ELSE null,
                   right |-> IF frontRight <= originalPageCount THEN frontRight ELSE null ],
       back |-> [ left |-> IF backRight <= originalPageCount THEN backRight ELSE null,
                  right |-> IF backLeft <= originalPageCount THEN backLeft ELSE null ] ]

SS_sheet_stepOne(i, paddedPages, originalPageCount) ==
  LET frontLeft == paddedPages - i
      frontRight == 1 + i
      backLeft == 2 + i
      backRight == paddedPages - 1 - i
  IN [ front |-> [ left |-> IF frontLeft <= originalPageCount THEN frontLeft ELSE null,
                   right |-> IF frontRight <= originalPageCount THEN frontRight ELSE null ],
       back |-> [ left |-> IF backLeft <= originalPageCount THEN backLeft ELSE null,
                  right |-> IF backRight <= originalPageCount THEN backRight ELSE null ] ]

SS_sheet(i, paddedPages, originalPageCount) ==
  LET frontLeft == paddedPages - 2 * i
      frontRight == 1 + 2 * i
      backLeft == 2 + 2 * i
      backRight == paddedPages - 1 - 2 * i
  IN [ front |-> [ left |-> IF frontLeft <= originalPageCount THEN frontLeft ELSE null,
                   right |-> IF frontRight <= originalPageCount THEN frontRight ELSE null ],
       back |-> [ left |-> IF backLeft <= originalPageCount THEN backLeft ELSE null,
                  right |-> IF backRight <= originalPageCount THEN backRight ELSE null ] ]

SS_calculateImposition(originalPageCount) ==
  LET paddedPages == SS_padToMultipleOf4(originalPageCount)
      numSheets == paddedPages \div 4
  IN [ sheets |-> [ k \in 1..numSheets |-> SS_sheet(k - 1, paddedPages, originalPageCount) ],
       totalPages |-> originalPageCount,
       paddedPages |-> paddedPages ]

\* quarter-booklet copy
QB_padToMultipleOf4(pageCount) == MathCeilDiv(pageCount, 4) * 4

QB_calculateImposition_noBlank(originalPageCount) ==
  LET paddedPages == QB_padToMultipleOf4(originalPageCount)
      numSheets == paddedPages \div 4
      sheet(i) ==
        [ front |-> [ left |-> paddedPages - 2 * i, right |-> 1 + 2 * i ],
          back |-> [ left |-> 2 + 2 * i, right |-> paddedPages - 1 - 2 * i ] ]
  IN [ sheets |-> [ k \in 1..numSheets |-> sheet(k - 1) ],
       totalPages |-> originalPageCount,
       paddedPages |-> paddedPages ]

QB_calculateImposition(originalPageCount) ==
  LET paddedPages == QB_padToMultipleOf4(originalPageCount)
      numSheets == paddedPages \div 4
      sheet(i) ==
        LET frontLeft == paddedPages - 2 * i
            frontRight == 1 + 2 * i
            backLeft == 2 + 2 * i
            backRight == paddedPages - 1 - 2 * i
        IN [ front |-> [ left |-> IF frontLeft <= originalPageCount THEN frontLeft ELSE null,
                         right |-> IF frontRight <= originalPageCount THEN frontRight ELSE null ],
             back |-> [ left |-> IF backLeft <= originalPageCount THEN backLeft ELSE null,
                        right |-> IF backRight <= originalPageCount THEN backRight ELSE null ] ]
  IN [ sheets |-> [ k \in 1..numSheets |-> sheet(k - 1) ],
       totalPages |-> originalPageCount,
       paddedPages |-> paddedPages ]

EmptyLayout == [ sheets |-> << >>, totalPages |-> 0, paddedPages |-> 0 ]

\* ------------------------------------------------------------------- state
VARIABLES
  formatId,    \* format id passed to processPdf
  processor,   \* process function of the processor processPdf delegated to, "" when none
  pageCount,   \* page count of the source document
  srcSize,     \* <<width, height>> of the source document's pages
  srcFaces,    \* the faces of the source when it is the output of a saddle-stitch run, else << >>
  sink,        \* TRUE when an onProgress callback was passed
  pc,          \* position of the run: idle, load, create, compose, save, done, failed
  layout,      \* ImpositionLayout computed by saddle-stitch / quarter-booklet
  pageMap,     \* un-impose: linear page -> [imposedPageIndex, side]
  idx,         \* compose loop counter
  faces,       \* output document: sequence of faces, each the sequence of its drawPage calls
  events,      \* progress events delivered to the sink, in order
  error,       \* message of the thrown Error, "" when none
  selectedTool,  \* App: id of the selected tool, or nullRef
  sourceFile,    \* App: the selected source file, or nullRef
  outputPdf,     \* App: << >> for null, else <<format id, file>> of the run that produced it
  appError,      \* App: the stored error message (the component's `error`), or nullRef
  progress,      \* App: the last ProcessingProgress written: [stage, percent, message]
  runs           \* App: the calls of handleFileSelect that have not returned yet

runVars == << formatId, processor, pageCount, srcSize, srcFaces, sink, pc, layout, pageMap, idx,
              faces, events, error >>

appVars == << selectedTool, sourceFile, outputPdf, appError, progress, runs >>

vars == << runVars, appVars >>

\* ------------------------------------------------- numbers of the drawing code
\* Page and box dimensions are whole points here. The drawing code computes in IEEE 754
\* doubles; a computed quantity is kept as its exact rational value `val` together with
\* `err`, the sign of (the double computed - val). err is worked out for the dimension
\* that Math.min makes the limiting one, where val is the box dimension itself and the
\* double is srcDim * (boxDim / srcDim) after two roundings; any other quantity differs
\* from every box dimension by far more than a rounding error and carries err = 0.
\* a const of the code: v is evaluated once and F applied to its value
Once(v, F(_)) == CHOOSE result \in { F(const) : const \in { v } } : TRUE

RECURSIVE GCD(_, _)
GCD(a, b) == IF b = 0 THEN a ELSE GCD(b, a % b)

Abs(a) == IF a < 0 THEN -a ELSE a

\* the rational n/d, d > 0, in lowest terms
Rat(n, d) == LET g == GCD(Abs(n), d) IN [ n |-> n \div g, d |-> d \div g ]

RatInt(i) == [ n |-> i, d |-> 1 ]

RatLeq(a, b) == a.n * b.d <= b.n * a.d

RatLess(a, b) == a.n * b.d < b.n * a.d

RatAdd(a, b) ==
  LET l == (a.d \div GCD(a.d, b.d)) * b.d
  IN Rat(a.n * (l \div a.d) + b.n * (l \div b.d), l)

RatSub(a, b) == RatAdd(a, [ n |-> -b.n, d |-> b.d ])

RatHalf(a) == Rat(a.n, 2 * a.d)

RatMulInt(i, a) == Rat(i * a.n, a.d)

RECURSIVE Pow2(_)
Pow2(e) == IF e = 0 THEN 1 ELSE 2 * Pow2(e - 1)

RECURSIVE ModPow2(_, _)
\* 2^e mod m
ModPow2(e, m) == IF e = 0 THEN 1 % m ELSE (2 * ModPow2(e - 1, m)) % m

RECURSIVE FloorLog2(_, _)
\* the k with 2^k <= a/b < 2^(k+1), for integers a, b > 0
FloorLog2(a, b) ==
  IF a < b THEN FloorLog2(2 * a, b) - 1
  ELSE IF a >= 2 * b THEN FloorLog2(a, 2 * b) + 1
  ELSE 0

\* boxDim / srcDim in doubles: with E = 52 - FloorLog2(b, s), the quotient is rounded to
\* the nearest multiple of 2^-E (ties to even); the double is (b * 2^E + t) / (s * 2^E),
\* and t is found from the remainder of b * 2^E modulo s
QuotientErr(b, s) ==
  Once(52 - FloorLog2(b, s), LAMBDA E :
    Once(((b % s) * ModPow2(E, s)) % s, LAMBDA r :
      LET odd == (((b % (2 * s)) * ModPow2(E, 2 * s)) % (2 * s)) >= s
      IN IF 2 * r < s \/ (2 * r = s /\ ~odd) THEN -r ELSE s - r))

\* srcDim * (boxDim / srcDim) in doubles, against boxDim: the exact product is
\* b + t / 2^E; the doubles around b are 2^(FloorLog2(b, 1) - 52) apart (half of that
\* below a power of two) and the product is rounded to the nearest, ties to b. The
\* result is b itself (0), the next double above (1) or the next below (-1).
RoundTripErr(b, s) ==
  Once(QuotientErr(b, s), LAMBDA t :
    LET gap == Pow2(FloorLog2(b, 1) - FloorLog2(b, s))
        isPow2 == Pow2(FloorLog2(b, 1)) = b
    IN IF t < 0 /\ isPow2
         THEN (IF 4 * Abs(t) > gap THEN -1 ELSE 0)
         ELSE IF 2 * Abs(t) > gap THEN (IF t > 0 THEN 1 ELSE -1) ELSE 0)

Num(val, err) == [ val |-> val, err |-> err ]

scaleToFit_max(boxWidth, boxHeight, srcWidth, srcHeight) ==
  LET rw == Rat(boxWidth, srcWidth)
      rh == Rat(boxHeight, srcHeight)
      byWidth == RatLeq(rh, rw)
      byHeight == RatLeq(rw, rh)
      scale == IF byWidth THEN rw ELSE rh
  IN [ scale |-> scale,
       scaledWidth |-> Num(RatMulInt(srcWidth, scale),
                           IF byWidth THEN RoundTripErr(boxWidth, srcWidth) ELSE 0),
       scaledHeight |-> Num(RatMulInt(srcHeight, scale),
                            IF byHeight THEN RoundTripErr(boxHeight, srcHeight) ELSE 0) ]

\* scale = Math.min(boxWidth / srcWidth, boxHeight / srcHeight);
\* scaledWidth = srcWidth * scale; scaledHeight = srcHeight * scale
scaleToFit(boxWidth, boxHeight, srcWidth, srcHeight) ==
  LET rw == Rat(boxWidth, srcWidth)
      rh == Rat(boxHeight, srcHeight)
      byWidth == RatLeq(rw, rh)
      byHeight == RatLeq(rh, rw)
      scale == IF byWidth THEN rw ELSE rh
  IN [ scale |-> scale,
       scaledWidth |-> Num(RatMulInt(srcWidth, scale),
                           IF byWidth THEN RoundTripErr(boxWidth, srcWidth) ELSE 0),
       scaledHeight |-> Num(RatMulInt(srcHeight, scale),
                            IF byHeight THEN RoundTripErr(boxHeight, srcHeight) ELSE 0) ]

\* (box - scaled) / 2: subtracting a double from a neighbouring one and halving are exact
centre(box, scaled) ==
  Num(RatHalf(RatSub(RatInt(box), scaled.val)),
      IF scaled.val = RatInt(box) THEN -scaled.err ELSE 0)

drawPageOptions_noShift(x, y, w, h, fw, fh, rot, srcWidth, srcHeight) ==
  Once(scaleToFit(fw, fh, srcWidth, srcHeight), LAMBDA fit :
    LET offsetX == centre(w, fit.scaledWidth)
        offsetY == centre(h, fit.scaledHeight)
    IN [ x |-> RatAdd(RatInt(x), offsetX.val),
         y |-> RatAdd(RatInt(y), offsetY.val),
         width |-> fit.scaledWidth,
         height |-> fit.scaledHeight,
         offsetX |-> offsetX,
         offsetY |-> offsetY ])

\* the options object given to drawPage for a page scaled to fit (fw, fh) and centred in
\* the box (x, y, w, h): x and y as exact values, moved to the opposite corner when the
\* page is rotated by 180 degrees
drawPageOptions(x, y, w, h, fw, fh, rot, srcWidth, srcHeight) ==
  Once(scaleToFit(fw, fh, srcWidth, srcHeight), LAMBDA fit :
    LET offsetX == centre(w, fit.scaledWidth)
        offsetY == centre(h, fit.scaledHeight)
        left == RatAdd(RatInt(x), offsetX.val)
        bottom == RatAdd(RatInt(y), offsetY.val)
    IN [ x |-> IF rot THEN RatAdd(left, fit.scaledWidth.val) ELSE left,
         y |-> IF rot THEN RatAdd(bottom, fit.scaledHeight.val) ELSE bottom,
         width |-> fit.scaledWidth,
         height |-> fit.scaledHeight,
         offsetX |-> offsetX,
         offsetY |-> offsetY ])

\* un-impose: the options object given to drawPage for one half of an imposed page of
\* size (width, height). halfWidth = width / 2 is exact, so
\* scale = Math.min(LETTER_WIDTH / halfWidth, LETTER_HEIGHT / height) is the scale that
\* fits the whole page into twice the letter width; the page is drawn whole, at
\* width * scale, shifted left by xOffset * scale = -halfWidth * scale for the right half
UI_drawPageOptions(side, width, height) ==
  Once(scaleToFit(2 * LETTER_WIDTH, LETTER_HEIGHT, width, height), LAMBDA fit :
    LET scaledWidth == Num(RatHalf(fit.scaledWidth.val), fit.scaledWidth.err)
        offsetX == centre(LETTER_WIDTH, scaledWidth)
        offsetY == centre(LETTER_HEIGHT, fit.scaledHeight)
    IN [ x |-> IF side = "left" THEN offsetX.val ELSE RatSub(offsetX.val, scaledWidth.val),
         y |-> offsetY.val,
         width |-> fit.scaledWidth,
         height |-> fit.scaledHeight,
         offsetX |-> offsetX,
         offsetY |-> offsetY ])

\* ------------------------------------------------------------ drawing model
\* one drawPage call: source page `page` (1-based), centred in the box (x, y, w, h),
\* scaled to fit (fw, fh), rotated 180 degrees when rot; `half` is the half of the
\* source page shown (un-impose), "full" otherwise; opts is the options object computed
\* from the size of the source page
Draw(page, x, y, w, h, fw, fh, rot, half) ==
  [ page |-> page, x |-> x, y |-> y, w |-> w, h |-> h, fw |-> fw, fh |-> fh,
    rot |-> rot, half |-> half,
    opts |-> IF half = "full"
               THEN drawPageOptions(x, y, w, h, fw, fh, rot, srcSize[1], srcSize[2])
               ELSE UI_drawPageOptions(half, srcSize[1], srcSize[2]) ]

\* onProgress?.({stage, percent}) with percent = num/den
Ev(stage, num, den) == [ stage |-> stage, num |-> num, den |-> den ]

\* updateProgress: delivers only when a sink was passed
updateProgress(s, evs) == IF s THEN evs ELSE << >>

ComposePercent_unscaled(k, total) == Ev("composing", 45 + 40 * k, 1)

\* percent = 45 + (k / total) * 40, as the exact rational (45*total + 40*k) / total
ComposePercent(k, total) == Ev("composing", 45 * total + 40 * k, total)

\* ----------------------------------------------------------- saddle-stitch
addImposedPage_rightOnly(leftPageNum, rightPageNum) ==
  IF rightPageNum # null
    THEN << Draw(rightPageNum, HALF_WIDTH, 0, HALF_WIDTH, OUTPUT_HEIGHT,
                 HALF_WIDTH, OUTPUT_HEIGHT, FALSE, "full") >>
    ELSE << >>

\* the draws of one new landscape face
addImposedPage(leftPageNum, rightPageNum) ==
  (IF leftPageNum # null
     THEN << Draw(leftPageNum, 0, 0, HALF_WIDTH, OUTPUT_HEIGHT,
                  HALF_WIDTH, OUTPUT_HEIGHT, FALSE, "full") >>
     ELSE << >>)
  \o
  (IF rightPageNum # null
     THEN << Draw(rightPageNum, HALF_WIDTH, 0, HALF_WIDTH, OUTPUT_HEIGHT,
                  HALF_WIDTH, OUTPUT_HEIGHT, FALSE, "full") >>
     ELSE << >>)

\* ------------------------------------------------- half-fold / two-up-proof
\* half-fold drawHalf(outputPage, pageNum, position): pageNum is 1-based
HF_drawHalf(n, pageNum, position) ==
  IF pageNum = null \/ pageNum > n
    THEN << >>
    ELSE << Draw(pageNum, IF position = "left" THEN 0 ELSE HALF_WIDTH, 0,
                 HALF_WIDTH, OUTPUT_HEIGHT, HALF_WIDTH, OUTPUT_HEIGHT, FALSE, "full") >>

HF_frontSheet_swapped(n) == HF_drawHalf(n, 1, "left") \o HF_drawHalf(n, 4, "right")

HF_frontSheet(n) == HF_drawHalf(n, 4, "left") \o HF_drawHalf(n, 1, "right")

HF_backSheet(n) == HF_drawHalf(n, 2, "left") \o HF_drawHalf(n, 3, "right")

\* two-up-proof drawHalf(outputPage, pageIndex, position): pageIndex is 0-based
TU_drawHalf(n, pageIndex, position) ==
  IF pageIndex >= n
    THEN << >>
    ELSE << Draw(pageIndex + 1, IF position = "left" THEN 0 ELSE HALF_WIDTH, 0,
                 HALF_WIDTH, OUTPUT_HEIGHT, HALF_WIDTH, OUTPUT_HEIGHT, FALSE, "full") >>

TU_spread_offByOne(n, spread) ==
  LET leftPageIndex == spread * 2 + 1
      rightPageIndex == spread * 2 + 2
  IN TU_drawHalf(n, leftPageIndex, "left")
     \o (IF rightPageIndex < n THEN TU_drawHalf(n, rightPageIndex, "right") ELSE << >>)

TU_spread(n, spread) ==
  LET leftPageIndex == spread * 2
      rightPageIndex == spread * 2 + 1
  IN TU_drawHalf(n, leftPageIndex, "left")
     \o (IF rightPageIndex < n THEN TU_drawHalf(n, rightPageIndex, "right") ELSE << >>)

TU_spreadCount(n) == MathCeilDiv(n, 2)

\* --------------------------------------------------------------- sequences
RECURSIVE FlatSeq(_)
\* concatenation of a sequence of sequences, in order
FlatSeq(ss) == IF ss = << >> THEN << >> ELSE Head(ss) \o FlatSeq(Tail(ss))

RECURSIVE SortedKeys(_)
\* the elements of a finite set of integers in ascending order
SortedKeys(S) ==
  IF S = {} THEN << >>
  ELSE LET m == CHOOSE x \in S : \A y \in S : x <= y
       IN << m >> \o SortedKeys(S \ { m })

\* Object.entries of an object with integer-like keys: ascending numeric key order
ObjectEntries(obj) == SortedKeys(DOMAIN obj)

\* --------------------------------------------------------------- mini-zine
FRONT_LAYOUT_shifted ==
  (4 :> [ col |-> 0, row |-> 1, rotate |-> FALSE ]) @@
  (5 :> [ col |-> 1, row |-> 1, rotate |-> TRUE ]) @@
  (8 :> [ col |-> 2, row |-> 1, rotate |-> FALSE ]) @@
  (1 :> [ col |-> 3, row |-> 1, rotate |-> TRUE ])

FRONT_LAYOUT ==
  (4 :> [ col |-> 0, row |-> 1, rotate |-> TRUE ]) @@
  (5 :> [ col |-> 1, row |-> 1, rotate |-> FALSE ]) @@
  (8 :> [ col |-> 2, row |-> 1, rotate |-> TRUE ]) @@
  (1 :> [ col |-> 3, row |-> 1, rotate |-> FALSE ])

BACK_LAYOUT_dup ==
  (2 :> [ col |-> 0, row |-> 1, rotate |-> FALSE ]) @@
  (7 :> [ col |-> 1, row |-> 1, rotate |-> TRUE ]) @@
  (5 :> [ col |-> 2, row |-> 1, rotate |-> FALSE ]) @@
  (3 :> [ col |-> 3, row |-> 1, rotate |-> TRUE ])

BACK_LAYOUT ==
  (2 :> [ col |-> 0, row |-> 1, rotate |-> FALSE ]) @@
  (7 :> [ col |-> 1, row |-> 1, rotate |-> TRUE ]) @@
  (6 :> [ col |-> 2, row |-> 1, rotate |-> FALSE ]) @@
  (3 :> [ col |-> 3, row |-> 1, rotate |-> TRUE ])

\* the panel loop over one layout table: the draws of one face
MZ_side(n, table) ==
  LET keys == ObjectEntries(table)
      kept == SelectSeq(keys, LAMBDA pageNum : ~(pageNum > n))
  IN [ j \in 1..Len(kept) |->
         LET pos == table[kept[j]]
         IN Draw(kept[j], pos.col * PANEL_WIDTH, pos.row * PANEL_HEIGHT,
                 PANEL_WIDTH, PANEL_HEIGHT, PANEL_WIDTH, PANEL_HEIGHT, pos.rotate, "full") ]

\* --------------------------------------------------------------- accordion
\* the panel count and panel width computed once per run (and not read again by the
\* drawing code below)
AC_panelsPerSide(n) == MathMin(n, MAX_PANELS_PER_SIDE)

AC_panelWidth(n) == LETTER_WIDTH \div AC_panelsPerSide(n)

\* drawPanel(outputPage, pageIndex, panelIndex, totalPanels, rotate); pageIndex is 0-based
AC_drawPanel(n, pageIndex, panelIndex, totalPanels, rotate) ==
  IF pageIndex >= n
    THEN << >>
    ELSE LET panelW == LETTER_WIDTH \div totalPanels
         IN << Draw(pageIndex + 1, panelIndex * panelW, 0, panelW, LETTER_HEIGHT,
                    panelW, LETTER_HEIGHT, rotate, "full") >>

AC_single_noRotate(n) ==
  FlatSeq([ k \in 1..n |-> AC_drawPanel(n, k - 1, k - 1, n, FALSE) ])

\* pageCount <= 4: the draws of the only face
AC_single(n) ==
  FlatSeq([ k \in 1..n |-> AC_drawPanel(n, k - 1, k - 1, n, (k - 1) % 2 = 1) ])

\* pageCount > 4: the draws of the front face
AC_front(n) ==
  FlatSeq([ k \in 1..MathMin(4, n) |-> AC_drawPanel(n, k - 1, k - 1, 4, (k - 1) % 2 = 1) ])

AC_back_notReversed(n) ==
  LET backPanelCount == n - 4
  IN FlatSeq([ k \in 1..backPanelCount |->
                 LET i == k - 1
                 IN AC_drawPanel(n, 4 + i, i, backPanelCount, i % 2 = 0) ])

\* pageCount > 4: the draws of the back face
AC_back(n) ==
  LET backPanelCount == n - 4
  IN FlatSeq([ k \in 1..backPanelCount |->
                 LET i == k - 1
                     pageIndex == 4 + i
                     panelPosition == backPanelCount - 1 - i
                 IN AC_drawPanel(n, pageIndex, panelPosition, backPanelCount, i % 2 = 0) ])

\* --------------------------------------------------------- quarter-booklet
QB_quadX(quadrant) == IF quadrant \in { "TR", "BR" } THEN QUARTER_WIDTH ELSE 0

QB_quadY(quadrant) == IF quadrant \in { "TL", "TR" } THEN QUARTER_HEIGHT ELSE 0

\* drawMiniPage(outputPage, pageNum, quadrant, position)
QB_drawMiniPage(pageNum, quadrant, position) ==
  IF pageNum = null
    THEN << >>
    ELSE << Draw(pageNum,
                 QB_quadX(quadrant) + (IF position = "left" THEN 0 ELSE QUARTER_WIDTH \div 2),
                 QB_quadY(quadrant),
                 QUARTER_WIDTH \div 2, QUARTER_HEIGHT,
                 MINI_HALF_WIDTH, MINI_PAGE_HEIGHT, FALSE, "full") >>

QB_physicalSheetCount(miniSheetCount) == MathCeilDiv(miniSheetCount, 2)

\* the draws of one mini-sheet side (front or back) in a quadrant
QB_miniSide(side, quadrant) ==
  QB_drawMiniPage(side.left, quadrant, "left") \o QB_drawMiniPage(side.right, quadrant, "right")

QB_frontPage_sameQuadrant(L, physSheet) ==
  LET miniSheet1Idx == physSheet * 2
      miniSheet2Idx == physSheet * 2 + 1
  IN (IF miniSheet1Idx < Len(L.sheets)
        THEN QB_miniSide(L.sheets[miniSheet1Idx + 1].front, "TL") ELSE << >>)
     \o
     (IF miniSheet2Idx < Len(L.sheets)
        THEN QB_miniSide(L.sheets[miniSheet2Idx + 1].front, "TL") ELSE << >>)

\* front face of physical sheet physSheet (0-based)
QB_frontPage(L, physSheet) ==
  LET miniSheet1Idx == physSheet * 2
      miniSheet2Idx == physSheet * 2 + 1
  IN (IF miniSheet1Idx < Len(L.sheets)
        THEN QB_miniSide(L.sheets[miniSheet1Idx + 1].front, "TL") ELSE << >>)
     \o
     (IF miniSheet2Idx < Len(L.sheets)
        THEN QB_miniSide(L.sheets[miniSheet2Idx + 1].front, "BL") ELSE << >>)

\* back face of physical sheet physSheet (0-based)
QB_backPage(L, physSheet) ==
  LET miniSheet1Idx == physSheet * 2
      miniSheet2Idx == physSheet * 2 + 1
  IN (IF miniSheet1Idx < Len(L.sheets)
        THEN QB_miniSide(L.sheets[miniSheet1Idx + 1].back, "TL") ELSE << >>)
     \o
     (IF miniSheet2Idx < Len(L.sheets)
        THEN QB_miniSide(L.sheets[miniSheet2Idx + 1].back, "BL") ELSE << >>)

\* --------------------------------------------------------------- un-impose
reverseImposition_frontBackSwapped(numLinearPages) ==
  LET numSheets == MathCeilDiv(numLinearPages, 4)
  IN FlatSeq([ k \in 1..numSheets |->
                 LET i == k - 1
                 IN << 2 + 2 * i, numLinearPages - 1 - 2 * i,
                       numLinearPages - 2 * i, 1 + 2 * i >> ])

\* the imposed order; the loop `i < numLinearPages / 4` runs ceil(numLinearPages/4) times
reverseImposition_repeat(numLinearPages) ==
  LET numSheets == MathCeilDiv(numLinearPages, 4)
  IN FlatSeq([ k \in 1..numSheets |->
                 LET i == k - 1
                 IN << numLinearPages - 2 * i, 1 + 2 * i,
                       1 + 2 * i, numLinearPages - 1 - 2 * i >> ])

reverseImposition(numLinearPages) ==
  LET numSheets == MathCeilDiv(numLinearPages, 4)
  IN FlatSeq([ k \in 1..numSheets |->
                 LET i == k - 1
                 IN << numLinearPages - 2 * i, 1 + 2 * i,
                       2 + 2 * i, numLinearPages - 1 - 2 * i >> ])

\* Map built by pageMap.set in index order: a later entry of the same key overrides
UI_pageMap(imposedOrder) ==
  LET keys == { imposedOrder[k] : k \in 1..Len(imposedOrder) }
      last(p) == CHOOSE k \in 1..Len(imposedOrder) :
                   /\ imposedOrder[k] = p
                   /\ \A m \in 1..Len(imposedOrder) : imposedOrder[m] = p => m <= k
  IN [ p \in keys |->
         LET i == last(p) - 1
         IN [ imposedPageIndex |-> i \div 2,
              side |-> IF i % 2 = 0 THEN "left" ELSE "right" ] ]

\* the draw on the new portrait page of one linear page
UI_extract(mapping) ==
  << Draw(mapping.imposedPageIndex + 1, 0, 0, LETTER_WIDTH, LETTER_HEIGHT,
          LETTER_WIDTH, LETTER_HEIGHT, FALSE, mapping.side) >>

\* ------------------------------------------------------- validate(pageCount)
valid == [ valid |-> TRUE, message |-> "" ]

invalid(message) == [ valid |-> FALSE, message |-> message ]

SS_validate(c) ==
  IF c < 1 THEN invalid("PDF must have at least 1 page") ELSE valid

UI_validate(c) ==
  IF c < 1 THEN invalid("PDF must have at least 1 page") ELSE valid

MZ_validate(c) ==
  IF c < 1 THEN invalid("PDF must have at least 1 page")
  ELSE IF c > 8 THEN invalid("Mini zine supports maximum 8 pages")
  ELSE valid

HF_validate(c) ==
  IF c < 1 THEN invalid("PDF must have at least 1 page")
  ELSE IF c > 4 THEN invalid("Half-fold supports maximum 4 pages")
  ELSE valid

QB_validate(c) ==
  IF c < 1 THEN invalid("PDF must have at least 1 page") ELSE valid

TU_validate(c) ==
  IF c < 1 THEN invalid("PDF must have at least 1 page") ELSE valid

AC_validate(c) ==
  IF c < 1 THEN invalid("PDF must have at least 1 page")
  ELSE IF c > 8 THEN invalid("Accordion fold supports maximum 8 pages")
  ELSE valid

\* the validate of the processor whose process is p
validate(p, c) ==
  CASE p = "SS" -> SS_validate(c)
    [] p = "UI" -> UI_validate(c)
    [] p = "MZ" -> MZ_validate(c)
    [] p = "HF" -> HF_validate(c)
    [] p = "QB" -> QB_validate(c)
    [] p = "TU" -> TU_validate(c)
    [] p = "AC" -> AC_validate(c)

\* ------------------------------------------------------- the app's state
\* the most calls of handleFileSelect that are in flight at once
MaxRuns == 2

Slots == 1..MaxRuns

\* null of the app's references (selectedTool, sourceFile, error)
nullRef == "null"

\* outputPdf = null
noOutput == << >>

\* progress as declared and as resetProcessing leaves it
idleProgress == [ stage |-> "idle", percent |-> 0, message |-> "" ]

\* a free slot: no call of handleFileSelect in flight in it
noRun == [ file |-> nullRef, formatId |-> nullRef, at |-> "none", alone |-> FALSE ]

\* ------------------------------------------------------------ the run
Init ==
  /\ formatId = ""
  /\ processor = ""
  /\ pageCount = 0
  /\ srcSize = << LETTER_WIDTH, LETTER_HEIGHT >>
  /\ srcFaces = << >>
  /\ sink = FALSE
  /\ pc = "idle"
  /\ layout = EmptyLayout
  /\ pageMap = << >>
  /\ idx = 0
  /\ faces = << >>
  /\ events = << >>
  /\ error = ""
  /\ selectedTool = nullRef
  /\ sourceFile = nullRef
  /\ outputPdf = noOutput
  /\ appError = nullRef
  /\ progress = idleProgress
  /\ runs = [ s \in Slots |-> noRun ]

\* processPdf(formatId, sourceData, onProgress) up to the first await of process:
\* an unregistered id throws before any processor runs; a registered one delegates to
\* its process, which reports 'loading' 10 and awaits PDFDocument.load
processPdf(f, n, sz, sf, s) ==
  /\ formatId' = f
  /\ processor' = getProcessor(f).process
  /\ pageCount' = n
  /\ srcSize' = sz
  /\ srcFaces' = sf
  /\ sink' = s
  /\ layout' = EmptyLayout
  /\ pageMap' = << >>
  /\ idx' = 0
  /\ faces' = << >>
  /\ UNCHANGED appVars
  /\ IF getProcessor(f) = undefined
       THEN /\ pc' = "failed"
            /\ error' = "Unknown format: " \o f
            /\ events' = << >>
       ELSE /\ pc' = "load"
            /\ error' = ""
            /\ events' = updateProgress(s, << Ev("loading", 10, 1) >>)

\* a caller starts a run on a document of n pages
Start ==
  /\ pc = "idle"
  /\ \E f \in RequestIds, n \in 0..MaxPages, sz \in PageSizes, s \in BOOLEAN :
       processPdf(f, n, sz, << >>, s)

\* the output of a finished saddle-stitch run is given to un-impose
Reimpose ==
  /\ pc = "done"
  /\ processor = "SS"
  /\ \E s \in BOOLEAN :
       processPdf("un-impose", Len(faces), << OUTPUT_WIDTH, OUTPUT_HEIGHT >>, faces, s)

Throw_afterAddPage(msg, evs) ==
  /\ pc' = "failed"
  /\ error' = msg
  /\ events' = events \o updateProgress(sink, evs)
  /\ faces' = Append(faces, << >>)
  /\ UNCHANGED << appVars, formatId, processor, pageCount, srcSize, srcFaces, sink, layout, pageMap, idx >>

\* throw new Error(msg) after delivering evs
Throw(msg, evs) ==
  /\ pc' = "failed"
  /\ error' = msg
  /\ events' = events \o updateProgress(sink, evs)
  /\ UNCHANGED << appVars, formatId, processor, pageCount, srcSize, srcFaces, sink, layout, pageMap, idx, faces >>

\* the input checks passed: deliver evs, keep the layout L, await PDFDocument.create
Proceed(evs, L) ==
  /\ pc' = "create"
  /\ events' = events \o updateProgress(sink, evs)
  /\ layout' = L
  /\ UNCHANGED << appVars, formatId, processor, pageCount, srcSize, srcFaces, sink, pageMap, idx, faces, error >>

SS_loaded_noEmptyCheck ==
  /\ pc = "load" /\ processor = "SS"
  /\ Proceed(<< Ev("loading", 25, 1), Ev("processing", 30, 1),
                 Ev("processing", 40, 1), Ev("composing", 45, 1) >>,
              SS_calculateImposition(pageCount))

SS_loaded ==
  /\ pc = "load" /\ processor = "SS"
  /\ IF pageCount = 0
       THEN Throw("The PDF contains no pages", << >>)
       ELSE Proceed(<< Ev("loading", 25, 1), Ev("processing", 30, 1),
                       Ev("processing", 40, 1), Ev("composing", 45, 1) >>,
                    SS_calculateImposition(pageCount))

UI_loaded_multipleOf2 ==
  /\ pc = "load" /\ processor = "UI"
  /\ LET width == srcSize[1]
         height == srcSize[2]
         linearPageCount == pageCount * 2
     IN IF pageCount = 0
          THEN Throw("The PDF contains no pages", << >>)
          ELSE IF width < height
            THEN Throw("Expected landscape orientation. This PDF may not be imposed.",
                       << Ev("loading", 25, 1), Ev("processing", 30, 1) >>)
            ELSE IF linearPageCount % 2 # 0
              THEN Throw("Invalid imposed PDF: " \o ToString(linearPageCount)
                           \o " extracted pages is not a multiple of 4",
                         << Ev("loading", 25, 1), Ev("processing", 30, 1) >>)
              ELSE Proceed(<< Ev("loading", 25, 1), Ev("processing", 30, 1),
                              Ev("processing", 40, 1), Ev("composing", 45, 1) >>,
                           layout)

UI_loaded ==
  /\ pc = "load" /\ processor = "UI"
  /\ LET width == srcSize[1]
         height == srcSize[2]
         linearPageCount == pageCount * 2
     IN IF pageCount = 0
          THEN Throw("The PDF contains no pages", << >>)
          ELSE IF width < height
            THEN Throw("Expected landscape orientation. This PDF may not be imposed.",
                       << Ev("loading", 25, 1), Ev("processing", 30, 1) >>)
            ELSE IF linearPageCount % 4 # 0
              THEN Throw("Invalid imposed PDF: " \o ToString(linearPageCount)
                           \o " extracted pages is not a multiple of 4",
                         << Ev("loading", 25, 1), Ev("processing", 30, 1) >>)
              ELSE Proceed(<< Ev("loading", 25, 1), Ev("processing", 30, 1),
                              Ev("processing", 40, 1), Ev("composing", 45, 1) >>,
                           layout)

MZ_loaded_atLeast8 ==
  /\ pc = "load" /\ processor = "MZ"
  /\ IF pageCount = 0
       THEN Throw("The PDF contains no pages", << >>)
       ELSE IF pageCount >= 8
         THEN Throw("Mini zine requires exactly 8 pages (or fewer to pad with blanks)", << >>)
         ELSE Proceed(<< Ev("loading", 25, 1), Ev("processing", 30, 1),
                         Ev("composing", 40, 1) >>, layout)

MZ_loaded ==
  /\ pc = "load" /\ processor = "MZ"
  /\ IF pageCount = 0
       THEN Throw("The PDF contains no pages", << >>)
       ELSE IF pageCount > 8
         THEN Throw("Mini zine requires exactly 8 pages (or fewer to pad with blanks)", << >>)
         ELSE Proceed(<< Ev("loading", 25, 1), Ev("processing", 30, 1),
                         Ev("composing", 40, 1) >>, layout)

HF_loaded ==
  /\ pc = "load" /\ processor = "HF"
  /\ IF pageCount = 0
       THEN Throw("The PDF contains no pages", << >>)
       ELSE IF pageCount > 4
         THEN Throw("Half-fold requires exactly 4 pages (or fewer to pad with blanks)", << >>)
         ELSE Proceed(<< Ev("loading", 25, 1), Ev("processing", 30, 1),
                         Ev("composing", 40, 1) >>, layout)

QB_loaded ==
  /\ pc = "load" /\ processor = "QB"
  /\ IF pageCount = 0
       THEN Throw("The PDF contains no pages", << >>)
       ELSE Proceed(<< Ev("loading", 25, 1), Ev("processing", 30, 1),
                       Ev("processing", 40, 1), Ev("composing", 45, 1) >>,
                    QB_calculateImposition(pageCount))

TU_loaded ==
  /\ pc = "load" /\ processor = "TU"
  /\ IF pageCount = 0
       THEN Throw("The PDF contains no pages", << >>)
       ELSE Proceed(<< Ev("loading", 25, 1), Ev("processing", 30, 1),
                       Ev("processing", 40, 1), Ev("composing", 45, 1) >>, layout)

AC_loaded ==
  /\ pc = "load" /\ processor = "AC"
  /\ IF pageCount = 0
       THEN Throw("The PDF contains no pages", << >>)
       ELSE IF pageCount > 8
         THEN Throw("Accordion fold supports maximum 8 pages", << >>)
         ELSE Proceed(<< Ev("loading", 25, 1), Ev("processing", 30, 1),
                         Ev("composing", 40, 1) >>, layout)

\* PDFDocument.create() and embedPdf resolved: the compose loop starts
Created ==
  /\ pc = "create" /\ processor # "UI"
  /\ pc' = "compose"
  /\ idx' = 0
  /\ UNCHANGED << appVars, formatId, processor, pageCount, srcSize, srcFaces, sink, layout, pageMap, faces,
                  events, error >>

\* un-impose: PDFDocument.create() resolved, then the page map is built
UI_created ==
  /\ pc = "create" /\ processor = "UI"
  /\ pc' = "compose"
  /\ idx' = 0
  /\ pageMap' = UI_pageMap(reverseImposition(pageCount * 2))
  /\ UNCHANGED << appVars, formatId, processor, pageCount, srcSize, srcFaces, sink, layout, faces, events, error >>

Step_onlyWithSink(newFaces, evs) ==
  /\ faces' = (IF sink THEN newFaces ELSE faces)
  /\ idx' = idx + 1
  /\ events' = events \o updateProgress(sink, evs)
  /\ UNCHANGED << appVars, formatId, processor, pageCount, srcSize, srcFaces, sink, pc, layout, pageMap, error >>

\* one compose step: the faces and the progress events it adds
Step(newFaces, evs) ==
  /\ faces' = newFaces
  /\ idx' = idx + 1
  /\ events' = events \o updateProgress(sink, evs)
  /\ UNCHANGED << appVars, formatId, processor, pageCount, srcSize, srcFaces, sink, pc, layout, pageMap, error >>

SS_compose_backFirst ==
  /\ pc = "compose" /\ processor = "SS"
  /\ LET totalSides == Len(layout.sheets) * 2
         sheet == layout.sheets[(idx \div 2) + 1]
         side == IF idx % 2 = 0 THEN sheet.back ELSE sheet.front
         currentSide == idx + 1
     IN /\ idx < totalSides
        /\ Step(Append(faces, addImposedPage(side.left, side.right)),
                << ComposePercent(currentSide, totalSides) >>)

\* saddle-stitch: one addImposedPage per side, front then back of each sheet
SS_compose ==
  /\ pc = "compose" /\ processor = "SS"
  /\ LET totalSides == Len(layout.sheets) * 2
         sheet == layout.sheets[(idx \div 2) + 1]
         side == IF idx % 2 = 0 THEN sheet.front ELSE sheet.back
         currentSide == idx + 1
     IN /\ idx < totalSides
        /\ Step(Append(faces, addImposedPage(side.left, side.right)),
                << ComposePercent(currentSide, totalSides) >>)

\* quarter-booklet: one physical sheet (front face, back face) per iteration
QB_compose ==
  /\ pc = "compose" /\ processor = "QB"
  /\ LET physicalSheetCount == QB_physicalSheetCount(Len(layout.sheets))
         physSheet == idx
     IN /\ physSheet < physicalSheetCount
        /\ Step(faces \o << QB_frontPage(layout, physSheet), QB_backPage(layout, physSheet) >>,
                << ComposePercent(physSheet + 1, physicalSheetCount) >>)

\* two-up-proof: one spread per iteration
TU_compose ==
  /\ pc = "compose" /\ processor = "TU"
  /\ LET spreadCount == TU_spreadCount(pageCount)
         spread == idx
     IN /\ spread < spreadCount
        /\ Step(Append(faces, TU_spread(pageCount, spread)),
                << ComposePercent(spread + 1, spreadCount) >>)

\* mini-zine: the front face, 'composing' 70, then the back face
MZ_compose ==
  /\ pc = "compose" /\ processor = "MZ"
  /\ \/ /\ idx = 0
        /\ Step(Append(faces, MZ_side(pageCount, FRONT_LAYOUT)), << Ev("composing", 70, 1) >>)
     \/ /\ idx = 1
        /\ Step(Append(faces, MZ_side(pageCount, BACK_LAYOUT)), << >>)

\* half-fold: the front sheet, 'composing' 70, then the back sheet
HF_compose ==
  /\ pc = "compose" /\ processor = "HF"
  /\ \/ /\ idx = 0
        /\ Step(Append(faces, HF_frontSheet(pageCount)), << Ev("composing", 70, 1) >>)
     \/ /\ idx = 1
        /\ Step(Append(faces, HF_backSheet(pageCount)), << >>)

\* accordion: one face when pageCount <= 4; else both faces are added, the front is
\* drawn, 'composing' 60, and then the back is drawn
AC_compose ==
  /\ pc = "compose" /\ processor = "AC"
  /\ \/ /\ pageCount <= 4 /\ idx = 0
        /\ Step(Append(faces, AC_single(pageCount)), << Ev("composing", 80, 1) >>)
     \/ /\ pageCount > 4 /\ idx = 0
        /\ Step(faces \o << AC_front(pageCount), << >> >>, << Ev("composing", 60, 1) >>)
     \/ /\ pageCount > 4 /\ idx = 1
        /\ Step([ faces EXCEPT ![2] = AC_back(pageCount) ], << Ev("composing", 80, 1) >>)

\* un-impose: one linear page per iteration; a page without a mapping is skipped
UI_compose ==
  /\ pc = "compose" /\ processor = "UI"
  /\ LET linearPageCount == pageCount * 2
         linearPage == idx + 1
     IN /\ linearPage <= linearPageCount
        /\ IF linearPage \in DOMAIN pageMap
             THEN Step(Append(faces, UI_extract(pageMap[linearPage])),
                       << ComposePercent(linearPage, linearPageCount) >>)
             ELSE Step(faces, << >>)

\* the compose loop of the current format has run to its end
ComposeDone ==
  CASE processor = "SS" -> idx = Len(layout.sheets) * 2
    [] processor = "QB" -> idx = QB_physicalSheetCount(Len(layout.sheets))
    [] processor = "TU" -> idx = TU_spreadCount(pageCount)
    [] processor = "MZ" -> idx = 2
    [] processor = "HF" -> idx = 2
    [] processor = "AC" -> idx = (IF pageCount <= 4 THEN 1 ELSE 2)
    [] processor = "UI" -> idx = pageCount * 2
    [] OTHER -> FALSE

\* updateProgress('saving', 90); await outputPdf.save()
BeginSave ==
  /\ pc = "compose" /\ ComposeDone
  /\ pc' = "save"
  /\ events' = events \o updateProgress(sink, << Ev("saving", 90, 1) >>)
  /\ UNCHANGED << appVars, formatId, processor, pageCount, srcSize, srcFaces, sink, layout, pageMap, idx, faces,
                  error >>

\* save resolved: updateProgress('complete', 100); return outputData
Saved ==
  /\ pc = "save"
  /\ pc' = "done"
  /\ events' = events \o updateProgress(sink, << Ev("complete", 100, 1) >>)
  /\ UNCHANGED << appVars, formatId, processor, pageCount, srcSize, srcFaces, sink, layout, pageMap, idx, faces,
                  error >>

\* the run is over (resolved or rejected); the caller may start another
Finish ==
  /\ pc \in { "done", "failed" }
  /\ formatId' = ""
  /\ processor' = ""
  /\ pageCount' = 0
  /\ srcSize' = << LETTER_WIDTH, LETTER_HEIGHT >>
  /\ srcFaces' = << >>
  /\ sink' = FALSE
  /\ pc' = "idle"
  /\ layout' = EmptyLayout
  /\ pageMap' = << >>
  /\ idx' = 0
  /\ faces' = << >>
  /\ events' = << >>
  /\ error' = ""
  /\ UNCHANGED appVars

Next ==
  \/ Start
  \/ Reimpose
  \/ SS_loaded
  \/ UI_loaded
  \/ MZ_loaded
  \/ HF_loaded
  \/ QB_loaded
  \/ TU_loaded
  \/ AC_loaded
  \/ Created
  \/ UI_created
  \/ SS_compose
  \/ QB_compose
  \/ TU_compose
  \/ MZ_compose
  \/ HF_compose
  \/ AC_compose
  \/ UI_compose
  \/ BeginSave
  \/ Saved
  \/ Finish

Spec == Init /\ [][Next]_vars

\* ================================================================== claims
\* -------------------------------------------------- vocabulary of the claims
\* the run has passed its input checks and holds its layout
Planned == pc \in { "create", "compose", "save", "done" }

\* v, or blank when v lies beyond the n source pages
BlankBeyond(v, n) == IF v > n THEN null ELSE v

\* the smallest multiple of 4 that is >= n
SmallestMultipleOf4(n) ==
  CHOOSE m \in 0..(n + 4) : m % 4 = 0 /\ m >= n /\ \A q \in 0..(n + 4) : (q % 4 = 0 /\ q >= n) => m <= q

\* indices of the draws on a face whose box has its origin at (x, y)
DrawsAt(face, x, y) == { k \in 1..Len(face) : face[k].x = x /\ face[k].y = y }

\* the slot of origin (x, y) holds exactly `page` with rotation `rot`, or nothing when page is blank
SlotHolds(face, x, y, page, rot) ==
  IF page = null
    THEN DrawsAt(face, x, y) = {}
    ELSE \E k \in 1..Len(face) :
           /\ DrawsAt(face, x, y) = { k }
           /\ face[k].page = page
           /\ face[k].rot = rot

\* every draw of the output, face after face
AllDraws == FlatSeq(faces)

\* number of draws of source page p in the whole output
TimesDrawn(p) == Cardinality({ k \in 1..Len(AllDraws) : AllDraws[k].page = p })

\* the four slots of the plan, sheet after sheet: front left, front right, back left, back right
PlanSlots(L) ==
  FlatSeq([ k \in 1..Len(L.sheets) |->
              << L.sheets[k].front.left, L.sheets[k].front.right,
                 L.sheets[k].back.left, L.sheets[k].back.right >> ])

\* ------------------------------------------------------------------- C1
\* C1: for every source page count n >= 1 the saddle-stitch generator returns
\* paddedPages = the smallest multiple of 4 that is >= n (paddedPages >= n and
\* paddedPages - 4 < n), totalPages = n, and exactly paddedPages/4 sheets; the
\* imposition module's generator does the same for the same n.
C1_PaddingMinimal ==
  /\ (formatId = "saddle-stitch" /\ Planned) =>
       /\ pageCount >= 1
       /\ layout.paddedPages = SmallestMultipleOf4(pageCount)
       /\ layout.paddedPages % 4 = 0
       /\ layout.paddedPages >= pageCount
       /\ layout.paddedPages - 4 < pageCount
       /\ layout.totalPages = pageCount
       /\ Len(layout.sheets) * 4 = layout.paddedPages
  /\ pageCount >= 1 =>
       LET L == calculateImposition(pageCount)
       IN /\ L.paddedPages = SmallestMultipleOf4(pageCount)
          /\ L.totalPages = pageCount
          /\ Len(L.sheets) * 4 = L.paddedPages

\* a saddle-stitch run of 5 pages was padded to 8 pages on 2 sheets
C1_Witness ==
  /\ formatId = "saddle-stitch" /\ pc = "done" /\ pageCount = 5
  /\ layout.paddedPages = 8 /\ Len(layout.sheets) = 2

\* ------------------------------------------------------------------- C2
\* C2: for every n >= 1 and sheet index i, the saddle-stitch plan has
\* front.left = padded - 2i, front.right = 1 + 2i, back.left = 2 + 2i,
\* back.right = padded - 1 - 2i, each blank exactly when it is > n; n = 1..4 gives
\* one sheet and n = 1 gives front {blank, 1}, back {blank, blank}.
C2_SheetFormula ==
  (formatId = "saddle-stitch" /\ Planned) =>
    LET n == pageCount
        padded == SmallestMultipleOf4(n)
    IN /\ Len(layout.sheets) = padded \div 4
       /\ \A i \in 0..(Len(layout.sheets) - 1) :
            LET sheet == layout.sheets[i + 1]
            IN /\ sheet.front.left = BlankBeyond(padded - 2 * i, n)
               /\ sheet.front.right = BlankBeyond(1 + 2 * i, n)
               /\ sheet.back.left = BlankBeyond(2 + 2 * i, n)
               /\ sheet.back.right = BlankBeyond(padded - 1 - 2 * i, n)
       /\ n \in 1..4 => Len(layout.sheets) = 1
       /\ n = 1 => layout.sheets =
            << [ front |-> [ left |-> null, right |-> 1 ],
                 back |-> [ left |-> null, right |-> null ] ] >>

\* a 6-page plan: the second sheet is {6, 3} / {4, 5}, the first back has a blank right
C2_Witness ==
  /\ formatId = "saddle-stitch" /\ Planned /\ pageCount = 6
  /\ layout.sheets[1].back = [ left |-> 2, right |-> null ]
  /\ layout.sheets[2].front = [ left |-> 6, right |-> 3 ]
  /\ layout.sheets[2].back = [ left |-> 4, right |-> 5 ]

\* ------------------------------------------------------------------- C3
\* C3: saddle-stitch completeness: every page 1..n occupies exactly one of the
\* 4*sheetCount plan slots, exactly paddedPages - n slots are blank, and the finished
\* output draws a source page exactly once per non-blank slot, in that slot's face and
\* half, and nothing for a blank slot.
C3_SaddleComplete ==
  (formatId = "saddle-stitch" /\ Planned) =>
    LET slots == PlanSlots(layout)
    IN /\ Len(slots) = 4 * Len(layout.sheets)
       /\ \A p \in 1..pageCount : Cardinality({ k \in 1..Len(slots) : slots[k] = p }) = 1
       /\ Cardinality({ k \in 1..Len(slots) : slots[k] = null }) = layout.paddedPages - pageCount
       /\ pc \in { "save", "done" } =>
            /\ Len(faces) = 2 * Len(layout.sheets)
            /\ Len(AllDraws) = pageCount
            /\ \A p \in 1..pageCount : TimesDrawn(p) = 1
            /\ \A k \in 1..Len(layout.sheets) :
                 /\ SlotHolds(faces[2 * k - 1], 0, 0, layout.sheets[k].front.left, FALSE)
                 /\ SlotHolds(faces[2 * k - 1], HALF_WIDTH, 0, layout.sheets[k].front.right, FALSE)
                 /\ SlotHolds(faces[2 * k], 0, 0, layout.sheets[k].back.left, FALSE)
                 /\ SlotHolds(faces[2 * k], HALF_WIDTH, 0, layout.sheets[k].back.right, FALSE)

\* a finished 5-page saddle-stitch run: 4 faces, 5 draws, 3 blank slots
C3_Witness ==
  /\ formatId = "saddle-stitch" /\ pc = "done" /\ pageCount = 5
  /\ Len(faces) = 4 /\ Len(AllDraws) = 5
  /\ Cardinality({ k \in 1..Len(PlanSlots(layout)) : PlanSlots(layout)[k] = null }) = 3

\* ------------------------------------------------------------------- C4
\* the source of the un-impose run is a saddle-stitch output without blank slots,
\* i.e. the output for a source of n = 2 * (number of faces) pages, n a multiple of 4
FullImposedSource ==
  /\ formatId = "un-impose"
  /\ srcFaces # << >>
  /\ \A f \in 1..Len(srcFaces) : Len(srcFaces[f]) = 2

\* the original page shown by a draw of un-impose: the page the source face holds in that half
Recovered(d) ==
  LET face == srcFaces[d.page]
      k == CHOOSE j \in 1..Len(face) : face[j].x = (IF d.half = "left" THEN 0 ELSE HALF_WIDTH)
  IN face[k].page

\* C4: round trip: for n a positive multiple of 4, un-impose run on the n/2 faces that
\* saddle-stitch emitted for n pages produces n output pages, and output page p shows
\* the face and half in which saddle-stitch placed source page p: order [1..n].
C4_RoundTrip ==
  (FullImposedSource /\ pc = "done") =>
    LET n == 2 * Len(srcFaces)
    IN /\ n % 4 = 0
       /\ Len(faces) = n
       /\ \A p \in 1..n :
            /\ Len(faces[p]) = 1
            /\ faces[p][1].page \in 1..Len(srcFaces)
            /\ faces[p][1].half \in { "left", "right" }
            /\ Recovered(faces[p][1]) = p

\* un-impose finished on the 4 faces saddle-stitch made of 8 pages; page 3 came from
\* the right half of the third face
C4_Witness ==
  /\ FullImposedSource /\ pc = "done" /\ Len(srcFaces) = 4 /\ Len(faces) = 8
  /\ faces[3][1].page = 3 /\ faces[3][1].half = "right"

\* ------------------------------------------------------------------- C5
\* no two draws of one face share a box origin
DistinctSlots(face) ==
  \A j, k \in 1..Len(face) : (face[j].x = face[k].x /\ face[j].y = face[k].y) => j = k

\* C5: completeness of mini-zine (1 <= n <= 8), half-fold (1 <= n <= 4) and
\* quarter-booklet (n >= 1): in the finished output every page 1..n is drawn into
\* exactly one slot across all faces, and no page outside 1..n is drawn.
C5_OtherFormatsComplete ==
  (formatId \in { "mini-zine", "half-fold", "quarter-booklet" } /\ pc \in { "save", "done" }) =>
    /\ pageCount >= 1
    /\ formatId = "mini-zine" => pageCount <= 8
    /\ formatId = "half-fold" => pageCount <= 4
    /\ \A p \in 1..pageCount : TimesDrawn(p) = 1
    /\ \A k \in 1..Len(AllDraws) : AllDraws[k].page \in 1..pageCount
    /\ \A f \in 1..Len(faces) : DistinctSlots(faces[f])

\* finished runs at the upper ends: 8-page mini-zine, 4-page half-fold, 10-page quarter-booklet
C5_WitnessMiniZine == formatId = "mini-zine" /\ pc = "done" /\ pageCount = 8 /\ Len(AllDraws) = 8

C5_WitnessHalfFold == formatId = "half-fold" /\ pc = "done" /\ pageCount = 4 /\ Len(AllDraws) = 4

C5_Witness == formatId = "quarter-booklet" /\ pc = "done" /\ pageCount = 10 /\ Len(AllDraws) = 10

\* ------------------------------------------------------------------- C6
\* C6: quarter-booklet composition: with S = ceil(n/4) mini-sheets the output has
\* ceil(S/2) physical sheets (two faces each); mini-sheet k's front pair lies on the
\* front face of physical sheet floor(k/2), in quadrant TL when k is even and BL when
\* k is odd, its back pair on the back face of the same sheet in the same quadrant,
\* left and right as in the plan; the faces hold nothing else.
C6_QuarterComposition ==
  (formatId = "quarter-booklet" /\ pc \in { "save", "done" }) =>
    LET S == Len(layout.sheets)
        P == Len(faces) \div 2
    IN /\ 4 * S >= pageCount /\ 4 * (S - 1) < pageCount
       /\ Len(faces) = 2 * P
       /\ 2 * P >= S /\ 2 * (P - 1) < S
       /\ \A k \in 0..(S - 1) :
            LET sheet == layout.sheets[k + 1]
                frontFace == faces[2 * (k \div 2) + 1]
                backFace == faces[2 * (k \div 2) + 2]
                quadY == IF k % 2 = 0 THEN QUARTER_HEIGHT ELSE 0
            IN /\ SlotHolds(frontFace, 0, quadY, sheet.front.left, FALSE)
               /\ SlotHolds(frontFace, QUARTER_WIDTH \div 2, quadY, sheet.front.right, FALSE)
               /\ SlotHolds(backFace, 0, quadY, sheet.back.left, FALSE)
               /\ SlotHolds(backFace, QUARTER_WIDTH \div 2, quadY, sheet.back.right, FALSE)
       /\ \A f \in 1..Len(faces) : \A j \in 1..Len(faces[f]) :
            /\ faces[f][j].x \in { 0, QUARTER_WIDTH \div 2 }
            /\ faces[f][j].y \in { 0, QUARTER_HEIGHT }
            /\ faces[f][j].y = 0 => 2 * ((f + 1) \div 2) <= S
       /\ Len(AllDraws) = pageCount

\* 10 pages: 3 mini-sheets on 2 physical sheets; mini-sheet 1 (pages 10|3) sits in BL of
\* the first front face, mini-sheet 2 in TL of the second physical sheet, whose BL is empty
C6_Witness ==
  /\ formatId = "quarter-booklet" /\ pc = "done" /\ pageCount = 10
  /\ Len(layout.sheets) = 3 /\ Len(faces) = 4
  /\ SlotHolds(faces[1], 0, 0, 10, FALSE)
  /\ SlotHolds(faces[1], QUARTER_WIDTH \div 2, 0, 3, FALSE)
  /\ SlotHolds(faces[3], 0, QUARTER_HEIGHT, 8, FALSE)
  /\ DrawsAt(faces[3], 0, 0) = {}

\* ------------------------------------------------------------------- C7
\* the panel column whose left edge is x holds exactly `page` with rotation `rot`, or
\* nothing when page is blank
ColumnHolds(face, x, page, rot) ==
  LET at == { k \in 1..Len(face) : face[k].x = x }
  IN IF page = null
       THEN at = {}
       ELSE \E k \in 1..Len(face) : at = { k } /\ face[k].page = page /\ face[k].rot = rot

\* C7: mini-zine fixed table: the output has exactly two faces; the front panels in
\* column order 0..3 hold pages [4,5,8,1] with exactly columns 0 and 2 rotated, the back
\* panels hold [2,7,6,3] with exactly columns 1 and 3 rotated; every page > n is blank.
C7_MiniZineTable ==
  (formatId = "mini-zine" /\ pc \in { "save", "done" }) =>
    LET frontPages == << 4, 5, 8, 1 >>
        backPages == << 2, 7, 6, 3 >>
    IN /\ Len(faces) = 2
       /\ \A c \in 0..3 :
            /\ ColumnHolds(faces[1], c * PANEL_WIDTH,
                           BlankBeyond(frontPages[c + 1], pageCount), c \in { 0, 2 })
            /\ ColumnHolds(faces[2], c * PANEL_WIDTH,
                           BlankBeyond(backPages[c + 1], pageCount), c \in { 1, 3 })
       /\ \A f \in 1..2 : \A j \in 1..Len(faces[f]) :
            \E c \in 0..3 : faces[f][j].x = c * PANEL_WIDTH

\* 5 pages: the front holds 4 (rotated), 5, blank, 1; the back holds 2, blank, blank, 3 (rotated)
C7_Witness ==
  /\ formatId = "mini-zine" /\ pc = "done" /\ pageCount = 5
  /\ \E k \in 1..Len(faces[1]) : faces[1][k].page = 4 /\ faces[1][k].x = 0 /\ faces[1][k].rot
  /\ \E k \in 1..Len(faces[1]) : faces[1][k].page = 5 /\ faces[1][k].x = PANEL_WIDTH /\ ~faces[1][k].rot
  /\ Len(faces[1]) = 3 /\ Len(faces[2]) = 2

\* ------------------------------------------------------------------- C8
\* C8: half-fold: for n in 1..4 the output has exactly two faces, front then back; the
\* front holds page 4 on the left and page 1 on the right, the back page 2 on the left
\* and page 3 on the right; every page > n is blank.
C8_HalfFoldLayout ==
  (formatId = "half-fold" /\ pc \in { "save", "done" }) =>
    /\ pageCount \in 1..4
    /\ Len(faces) = 2
    /\ SlotHolds(faces[1], 0, 0, BlankBeyond(4, pageCount), FALSE)
    /\ SlotHolds(faces[1], HALF_WIDTH, 0, BlankBeyond(1, pageCount), FALSE)
    /\ SlotHolds(faces[2], 0, 0, BlankBeyond(2, pageCount), FALSE)
    /\ SlotHolds(faces[2], HALF_WIDTH, 0, BlankBeyond(3, pageCount), FALSE)
    /\ Len(AllDraws) = pageCount

\* 3 pages: front is blank | 1, back is 2 | 3
C8_Witness ==
  /\ formatId = "half-fold" /\ pc = "done" /\ pageCount = 3
  /\ DrawsAt(faces[1], 0, 0) = {}
  /\ SlotHolds(faces[1], HALF_WIDTH, 0, 1, FALSE)
  /\ SlotHolds(faces[2], HALF_WIDTH, 0, 3, FALSE)

\* ------------------------------------------------------------------- C9
\* C9: two-up proof: for n >= 1 the output has exactly ceil(n/2) spreads in order;
\* spread s (0-based) holds page 2s+1 on the left and page 2s+2 on the right; the right
\* slot is blank exactly when n is odd and s is the last spread.
C9_TwoUpSequential ==
  (formatId = "two-up-proof" /\ pc \in { "save", "done" }) =>
    LET n == pageCount
        count == Len(faces)
    IN /\ n >= 1
       /\ 2 * count >= n /\ 2 * (count - 1) < n
       /\ \A s \in 0..(count - 1) :
            /\ SlotHolds(faces[s + 1], 0, 0, 2 * s + 1, FALSE)
            /\ SlotHolds(faces[s + 1], HALF_WIDTH, 0,
                         IF n % 2 = 1 /\ s = count - 1 THEN null ELSE 2 * s + 2, FALSE)
            /\ Len(faces[s + 1]) = (IF n % 2 = 1 /\ s = count - 1 THEN 1 ELSE 2)

\* 5 pages: [1,2], [3,4], [5, blank]
C9_Witness ==
  /\ formatId = "two-up-proof" /\ pc = "done" /\ pageCount = 5 /\ Len(faces) = 3
  /\ SlotHolds(faces[2], 0, 0, 3, FALSE) /\ SlotHolds(faces[2], HALF_WIDTH, 0, 4, FALSE)
  /\ SlotHolds(faces[3], 0, 0, 5, FALSE) /\ DrawsAt(faces[3], HALF_WIDTH, 0) = {}

\* ------------------------------------------------------------------ C10
\* C10: accordion, single-sided: for n in 1..4 the output is exactly one face on which
\* panel i (0-based, left to right, of n equal panels) holds source page i+1, rotated
\* 180 degrees iff i is odd; for n = 4 the contents are [1,2,3,4].
C10_AccordionSingle ==
  (formatId = "accordion" /\ pageCount <= 4 /\ pc \in { "save", "done" }) =>
    LET n == pageCount
    IN /\ n >= 1
       /\ Len(faces) = 1
       /\ Len(faces[1]) = n
       /\ \A i \in 0..(n - 1) :
            SlotHolds(faces[1], i * (LETTER_WIDTH \div n), 0, i + 1, i % 2 = 1)
       /\ \A j \in 1..Len(faces[1]) : n * faces[1][j].w = LETTER_WIDTH

\* 4 pages on one face: [1, 2 rotated, 3, 4 rotated] in panels of a quarter of the width
C10_Witness ==
  /\ formatId = "accordion" /\ pc = "done" /\ pageCount = 4 /\ Len(faces) = 1
  /\ SlotHolds(faces[1], 0, 0, 1, FALSE)
  /\ SlotHolds(faces[1], LETTER_WIDTH \div 4, 0, 2, TRUE)
  /\ SlotHolds(faces[1], 2 * (LETTER_WIDTH \div 4), 0, 3, FALSE)
  /\ SlotHolds(faces[1], 3 * (LETTER_WIDTH \div 4), 0, 4, TRUE)

\* ------------------------------------------------------------------ C11
\* the panel of a draw, counted from the left in panels of the draw's own width
PanelOf(d) == d.x \div d.w

\* panel `panel` of the face holds exactly `page`, with rotation `rot`
PanelHolds(face, panel, page, rot) ==
  \E k \in 1..Len(face) :
    /\ { j \in 1..Len(face) : PanelOf(face[j]) = panel } = { k }
    /\ face[k].x = panel * face[k].w
    /\ face[k].page = page
    /\ face[k].rot = rot

\* C11: accordion, double-sided: for every n in 5..8 the output is exactly two faces,
\* front then back; the front holds pages 1..4 in panels 0..3, panel i rotated iff i is
\* odd; the back holds pages 5..n: with backPanelCount = n - 4, page 5+i is in back
\* panel backPanelCount-1-i and is rotated iff i is even.
C11_AccordionDouble ==
  (formatId = "accordion" /\ pageCount > 4 /\ pc \in { "save", "done" }) =>
    LET n == pageCount
        backPanelCount == n - 4
    IN /\ n \in 5..8
       /\ Len(faces) = 2
       /\ Len(faces[1]) = 4
       /\ \A i \in 0..3 : PanelHolds(faces[1], i, i + 1, i % 2 = 1)
       /\ Len(faces[2]) = backPanelCount
       /\ \A i \in 0..(backPanelCount - 1) :
            PanelHolds(faces[2], backPanelCount - 1 - i, 5 + i, i % 2 = 0)

\* 7 pages: the back holds [7 rotated, 6, 5 rotated] from left to right
C11_Witness ==
  /\ formatId = "accordion" /\ pc = "done" /\ pageCount = 7 /\ Len(faces) = 2
  /\ PanelHolds(faces[1], 1, 2, TRUE) /\ PanelHolds(faces[1], 2, 3, FALSE)
  /\ PanelHolds(faces[2], 0, 7, TRUE)
  /\ PanelHolds(faces[2], 1, 6, FALSE)
  /\ PanelHolds(faces[2], 2, 5, TRUE)

\* ------------------------------------------------------------------ C12
\* C12: accordion panel count: for every n in 1..8 every printed side (the front, and
\* the back when n > 4) is divided into panelsPerSide = min(n, 4) equal-width panels:
\* every panel box on either side has width sheetWidth / min(n, 4).
C12_PanelsPerSide ==
  (formatId = "accordion" /\ pc \in { "save", "done" }) =>
    \A f \in 1..Len(faces) : \A k \in 1..Len(faces[f]) :
      /\ faces[f][k].w * AC_panelsPerSide(pageCount) = LETTER_WIDTH
      /\ faces[f][k].w = AC_panelWidth(pageCount)

\* 5 pages: the only panel of the back is the whole sheet wide, the front panels a quarter
C12_Witness ==
  /\ formatId = "accordion" /\ pc = "done" /\ pageCount = 5 /\ Len(faces) = 2
  /\ \A k \in 1..Len(faces[1]) : faces[1][k].w = AC_panelWidth(5)
  /\ Len(faces[2]) = 1
  /\ faces[2][1].page = 5
  /\ faces[2][1].w = LETTER_WIDTH
  /\ AC_panelWidth(5) = 153

\* ------------------------------------------------------------------ C13
\* the ids of the seven formats
SevenFormats ==
  { "saddle-stitch", "un-impose", "mini-zine", "half-fold", "quarter-booklet",
    "two-up-proof", "accordion" }

\* C13: empty document: in every one of the seven formats a run on a source document of
\* 0 pages ends in the error 'The PDF contains no pages' and never in a successful
\* result (it never gets past its load step other than by failing, and no face is added).
C13_EmptyDocument ==
  (formatId \in SevenFormats /\ pageCount = 0 /\ pc # "load") =>
    /\ pc = "failed"
    /\ error = "The PDF contains no pages"
    /\ faces = << >>

\* an empty document given to quarter-booklet has failed
C13_Witness ==
  /\ formatId = "quarter-booklet" /\ pageCount = 0
  /\ pc = "failed" /\ error = "The PDF contains no pages" /\ faces = << >>

\* ------------------------------------------------------------------ C14
\* the message of the invalid-imposition error for a document of `imposed` imposed pages
InvalidImposition(imposed) ==
  "Invalid imposed PDF: " \o ToString(2 * imposed) \o " extracted pages is not a multiple of 4"

\* C14: un-impose, malformed count: for every landscape imposed document (width > height)
\* with imposedPageCount >= 1, un-impose fails with the invalid-imposition error if and
\* only if linearPageCount = 2 * imposedPageCount is not a multiple of 4, that is iff
\* imposedPageCount is odd; every even count is accepted.
C14_MalformedCount ==
  (formatId = "un-impose" /\ srcSize[1] > srcSize[2] /\ pageCount >= 1 /\ pc # "load") =>
    /\ ((2 * pageCount) % 4 # 0) <=> (pageCount % 2 = 1)
    /\ (pageCount % 2 = 1) =>
         (pc = "failed" /\ error = InvalidImposition(pageCount) /\ faces = << >>)
    /\ (pageCount % 2 = 0) =>
         (pc \in { "create", "compose", "save", "done" } /\ error = "")

\* a landscape document of 3 imposed pages is rejected: 6 is not a multiple of 4
C14_Witness ==
  /\ formatId = "un-impose" /\ srcSize[1] > srcSize[2] /\ pageCount = 3
  /\ pc = "failed"
  /\ error = "Invalid imposed PDF: 6 extracted pages is not a multiple of 4"

\* ------------------------------------------------------------------ C15
\* the message of the format-mismatch error
NotLandscape == "Expected landscape orientation. This PDF may not be imposed."

\* C15: un-impose, orientation: un-impose reports the format-mismatch error whenever the
\* first imposed page is not landscape, that is whenever width > height does not hold (a
\* square page included), and it proceeds past the orientation check only when
\* width > height.
C15_Orientation ==
  (formatId = "un-impose" /\ pageCount >= 1 /\ pc # "load") =>
    IF srcSize[1] > srcSize[2]
      THEN error # NotLandscape
      ELSE pc = "failed" /\ error = NotLandscape /\ faces = << >>

\* a document of 2 square imposed pages is un-imposed to 4 output pages
C15_Witness ==
  /\ formatId = "un-impose" /\ srcSize[1] = srcSize[2] /\ pageCount = 2
  /\ pc = "done" /\ error = "" /\ Len(faces) = 4

\* ------------------------------------------------------------------ C16
\* the largest page count a format declares, and its page-count error
MaxPagesOf(f) ==
  CASE f = "mini-zine" -> 8
    [] f = "half-fold" -> 4
    [] f = "accordion" -> 8

PageCountError(f) ==
  CASE f = "mini-zine" -> "Mini zine requires exactly 8 pages (or fewer to pad with blanks)"
    [] f = "half-fold" -> "Half-fold requires exactly 4 pages (or fewer to pad with blanks)"
    [] f = "accordion" -> "Accordion fold supports maximum 8 pages"

C17_UnknownFormat ==
  (pc # "idle") =>
    /\ (formatId \notin SevenFormats) =>
         /\ pc = "failed"
         /\ error = "Unknown format: " \o formatId
         /\ processor = ""
         /\ events = << >>
         /\ faces = << >>
    /\ (formatId \in SevenFormats) =>
         /\ \E k \in 1..Len(formatProcessors) :
              /\ formatProcessors[k].id = formatId
              /\ formatProcessors[k].process = processor
         /\ error # "Unknown format: " \o formatId

\* a caller with a progress callback asks for a format that is not registered
C17_Witness ==
  /\ formatId = "poster" /\ sink
  /\ pc = "failed" /\ error = "Unknown format: poster"
  /\ processor = "" /\ events = << >>

\* ------------------------------------------------------------------ C18
\* the input errors: empty document, page count out of range, not landscape, not a
\* multiple of 4
InputErrors ==
  { "The PDF contains no pages", NotLandscape }
    \cup { PageCountError(f) : f \in { "mini-zine", "half-fold", "accordion" } }
    \cup { InvalidImposition(k) : k \in 0..(2 * MaxPages + 2) }

\* C18: fail-fast, no partial artifacts: in every format a run that ends in one of the
\* input errors raises it while the source is being checked, before the output document
\* is created and before any output face is added or any page drawn; no run adds an
\* output face and then fails on an input check.
C18_FailFast ==
  [][ (pc' = "failed" /\ error' \in InputErrors) =>
        /\ pc = "load"
        /\ faces = << >> /\ faces' = << >>
        /\ idx = 0 /\ idx' = 0 ]_vars

\* a portrait document given to un-impose: rejected after 'processing' 30 with no face
C18_Witness ==
  /\ formatId = "un-impose" /\ srcSize[1] < srcSize[2] /\ pageCount = 2 /\ sink
  /\ pc = "failed" /\ error = NotLandscape
  /\ events = << Ev("loading", 10, 1), Ev("loading", 25, 1), Ev("processing", 30, 1) >>
  /\ faces = << >> /\ idx = 0

\* ------------------------------------------------------------------ C19
\* the formats that scale a page into the box they centre it in
FitFormats == { "saddle-stitch", "half-fold", "two-up-proof", "mini-zine", "accordion" }

\* comparisons of a computed number with a whole number of points
NumLeqInt(a, i) == RatLess(a.val, RatInt(i)) \/ (a.val = RatInt(i) /\ a.err <= 0)

NumGeqZero(a) == a.val.n > 0 \/ (a.val.n = 0 /\ a.err >= 0)

NumEqInt(a, i) == a.val = RatInt(i) /\ a.err = 0

\* C19 as stated: geometry fit: for every source page and every slot box used by
\* saddle-stitch, half-fold, two-up-proof, mini-zine and accordion, with
\* scale = min(boxWidth/srcWidth, boxHeight/srcHeight) the drawn width and height never
\* exceed the box width and height, the centring offsets (boxWidth - drawWidth)/2 and
\* (boxHeight - drawHeight)/2 are both >= 0, and at least one of the two drawn
\* dimensions equals its box dimension.
C19_GeometryFit ==
  (formatId \in FitFormats) =>
    \A f \in 1..Len(faces) : \A k \in 1..Len(faces[f]) :
      LET d == faces[f][k]
          o == d.opts
      IN /\ NumLeqInt(o.width, d.w)
         /\ NumLeqInt(o.height, d.h)
         /\ NumGeqZero(o.offsetX)
         /\ NumGeqZero(o.offsetY)
         /\ NumEqInt(o.width, d.w) \/ NumEqInt(o.height, d.h)

\* C19 amended: in exact arithmetic the drawn width and height never exceed the box,
\* both centring offsets are >= 0 and at least one drawn dimension equals its box
\* dimension; the doubles the code computes differ from these exact values only on a
\* dimension whose exact value is the box dimension, and there by at most one rounding
\* step up or down (with the offset off by half of it, in the opposite direction).
C19_GeometryFitExact ==
  (formatId \in FitFormats) =>
    \A f \in 1..Len(faces) : \A k \in 1..Len(faces[f]) :
      LET d == faces[f][k]
          o == d.opts
      IN /\ d.fw = d.w /\ d.fh = d.h
         /\ RatLeq(o.width.val, RatInt(d.w))
         /\ RatLeq(o.height.val, RatInt(d.h))
         /\ o.offsetX.val = RatHalf(RatSub(RatInt(d.w), o.width.val))
         /\ o.offsetY.val = RatHalf(RatSub(RatInt(d.h), o.height.val))
         /\ o.offsetX.val.n >= 0
         /\ o.offsetY.val.n >= 0
         /\ o.width.val = RatInt(d.w) \/ o.height.val = RatInt(d.h)
         /\ o.width.val.n * srcSize[2] * o.height.val.d
              = o.height.val.n * srcSize[1] * o.width.val.d
         /\ o.width.err \in { -1, 0, 1 } /\ o.height.err \in { -1, 0, 1 }
         /\ (o.width.err # 0) => (o.width.val = RatInt(d.w))
         /\ (o.height.err # 0) => (o.height.val = RatInt(d.h))
         /\ o.offsetX.err = -o.width.err /\ o.offsetY.err = -o.height.err

\* an A4 page in a mini-zine panel: the width is the limiting dimension; its exact value
\* is the panel width 153, the double computed is the next one below 153
C19_Witness ==
  /\ formatId = "mini-zine" /\ pc = "done" /\ srcSize = << 595, 842 >> /\ pageCount = 8
  /\ Len(faces) = 2 /\ Len(faces[1]) = 4
  /\ faces[1][1].w = PANEL_WIDTH
  /\ faces[1][1].opts.width = Num(RatInt(PANEL_WIDTH), -1)
  /\ faces[1][1].opts.height = Num(Rat(842 * PANEL_WIDTH, 595), 0)
  /\ faces[1][1].opts.offsetX = Num(RatInt(0), 1)
  /\ RatLess(faces[1][1].opts.height.val, RatInt(PANEL_HEIGHT))

\* ------------------------------------------------------------------ C20
\* the rectangle a draw covers (no quarter-booklet page is rotated)
Left(d) == d.opts.x

Right(d) == RatAdd(d.opts.x, d.opts.width.val)

Bottom(d) == d.opts.y

Top(d) == RatAdd(d.opts.y, d.opts.height.val)

\* the rectangles of two draws share no area
Apart(d, e) ==
  \/ RatLeq(Right(d), Left(e)) \/ RatLeq(Right(e), Left(d))
  \/ RatLeq(Top(d), Bottom(e)) \/ RatLeq(Top(e), Bottom(d))

\* C20: quarter-booklet slot containment: for every source page size and every non-blank
\* mini page, the rectangle drawn by drawMiniPage lies entirely inside the left or right
\* sub-half of its quadrant (draw width <= sub-half width, draw height <= sub-half
\* height, centring offsets >= 0), so the left and right pages of one quadrant never
\* overlap and nothing is drawn outside the quadrant or outside the sheet.
C20_QuarterContainment ==
  (formatId = "quarter-booklet") =>
    \A f \in 1..Len(faces) :
      /\ \A k \in 1..Len(faces[f]) :
           LET d == faces[f][k]
           IN /\ d.w = QUARTER_WIDTH \div 2 /\ d.h = QUARTER_HEIGHT
              /\ NumLeqInt(d.opts.width, d.w)
              /\ NumLeqInt(d.opts.height, d.h)
              /\ NumGeqZero(d.opts.offsetX)
              /\ NumGeqZero(d.opts.offsetY)
              /\ RatLeq(RatInt(d.x), Left(d)) /\ RatLeq(Right(d), RatInt(d.x + d.w))
              /\ RatLeq(RatInt(d.y), Bottom(d)) /\ RatLeq(Top(d), RatInt(d.y + d.h))
              /\ RatLeq(RatInt(0), Left(d)) /\ RatLeq(Right(d), RatInt(QB_OUTPUT_WIDTH))
              /\ RatLeq(RatInt(0), Bottom(d)) /\ RatLeq(Top(d), RatInt(QB_OUTPUT_HEIGHT))
      /\ \A j, k \in 1..Len(faces[f]) : (j # k) => Apart(faces[f][j], faces[f][k])

\* a 4-page letter document: on the front, pages 4 and 1 are each drawn 198pt wide in a
\* 153pt sub-half: page 4 starts 22.5pt left of the sheet and the two overlap
C20_Witness ==
  /\ formatId = "quarter-booklet" /\ pc = "done" /\ pageCount = 4
  /\ srcSize = << LETTER_WIDTH, LETTER_HEIGHT >>
  /\ Len(faces) = 2 /\ Len(faces[1]) = 2
  /\ faces[1][1].page = 4 /\ faces[1][2].page = 1
  /\ faces[1][1].opts.width.val = RatInt(MINI_HALF_WIDTH)
  /\ Left(faces[1][1]) = Rat(-45, 2)
  /\ Left(faces[1][2]) = Rat(261, 2)
  /\ ~Apart(faces[1][1], faces[1][2])

\* ------------------------------------------------------------------ C21
\* the pages drawn on a face
PagesOn(face) == { face[k].page : k \in 1..Len(face) }

\* the non-blank pages of the sides `side` ("front" or "back") of mini-sheets 2j and 2j+1
MiniPages(L, j, side) ==
  { p \in { L.sheets[m][side].left : m \in { 2 * j + 1, 2 * j + 2 } \cap DOMAIN L.sheets }
            \cup { L.sheets[m][side].right : m \in { 2 * j + 1, 2 * j + 2 } \cap DOMAIN L.sheets } :
      p # null }

\* faces emitted so far are the fronts and backs of the plan's sheets, in plan order
EmittedInPlanOrder ==
  /\ (formatId = "saddle-stitch" /\ pc \in { "compose", "save", "done" }) =>
       /\ Len(faces) <= 2 * Len(layout.sheets)
       /\ (pc # "compose") => Len(faces) = 2 * Len(layout.sheets)
       /\ \A i \in 0..(Len(layout.sheets) - 1) :
            /\ (2 * i + 1 <= Len(faces)) =>
                 /\ SlotHolds(faces[2 * i + 1], 0, 0, layout.sheets[i + 1].front.left, FALSE)
                 /\ SlotHolds(faces[2 * i + 1], HALF_WIDTH, 0, layout.sheets[i + 1].front.right, FALSE)
            /\ (2 * i + 2 <= Len(faces)) =>
                 /\ SlotHolds(faces[2 * i + 2], 0, 0, layout.sheets[i + 1].back.left, FALSE)
                 /\ SlotHolds(faces[2 * i + 2], HALF_WIDTH, 0, layout.sheets[i + 1].back.right, FALSE)
  /\ (formatId = "quarter-booklet" /\ pc \in { "compose", "save", "done" }) =>
       LET physicalSheetCount == MathCeilDiv(Len(layout.sheets), 2)
       IN /\ Len(faces) <= 2 * physicalSheetCount
          /\ Len(faces) % 2 = 0
          /\ (pc # "compose") => Len(faces) = 2 * physicalSheetCount
          /\ \A j \in 0..(physicalSheetCount - 1) :
               (2 * j + 2 <= Len(faces)) =>
                 /\ PagesOn(faces[2 * j + 1]) = MiniPages(layout, j, "front")
                 /\ PagesOn(faces[2 * j + 2]) = MiniPages(layout, j, "back")

\* a face once emitted is never changed or moved: the output only grows at its end
EmittedOnce ==
  (formatId \in { "saddle-stitch", "quarter-booklet" } /\ pc = "compose" /\ pc' # "idle") =>
    /\ Len(faces') >= Len(faces)
    /\ \A k \in 1..Len(faces) : faces'[k] = faces[k]
    /\ (formatId = "saddle-stitch") => Len(faces') <= Len(faces) + 1
    /\ (formatId = "quarter-booklet") => Len(faces') \in { Len(faces), Len(faces) + 2 }

\* C21: render order: in saddle-stitch (and in quarter-booklet for physical sheets) the
\* output faces are emitted strictly in plan order, each sheet's front immediately
\* followed by its back: output face 2i (0-based) is the front of sheet i, face 2i+1 is
\* its back, and the output has exactly 2 * sheetCount faces.
C21_RenderOrder == [] EmittedInPlanOrder /\ [][EmittedOnce]_vars

\* 8 pages, 2 sheets: the third face emitted is the front of sheet 1 (pages 6, 3), the
\* fourth its back (pages 4, 5)
C21_Witness ==
  /\ formatId = "saddle-stitch" /\ pc = "done" /\ pageCount = 8 /\ Len(faces) = 4
  /\ SlotHolds(faces[1], 0, 0, 8, FALSE) /\ SlotHolds(faces[1], HALF_WIDTH, 0, 1, FALSE)
  /\ SlotHolds(faces[2], 0, 0, 2, FALSE) /\ SlotHolds(faces[2], HALF_WIDTH, 0, 7, FALSE)
  /\ SlotHolds(faces[3], 0, 0, 6, FALSE) /\ SlotHolds(faces[3], HALF_WIDTH, 0, 3, FALSE)
  /\ SlotHolds(faces[4], 0, 0, 4, FALSE) /\ SlotHolds(faces[4], HALF_WIDTH, 0, 5, FALSE)

\* ------------------------------------------------------------------ C26
\* C26: the copies of the saddle-stitch generator agree: for every n >= 1 the
\* calculateImposition functions of the imposition module, of saddle-stitch and of
\* quarter-booklet return identical layouts (same sheets, totalPages, paddedPages); and
\* for every L that is a positive multiple of 4, reverseImposition(L) is the sequence
\* [front.left, front.right, back.left, back.right] of the sheets of
\* calculateImposition(L), in sheet order.
C26_CopiesAgree ==
  /\ (formatId \in { "saddle-stitch", "quarter-booklet" } /\ Planned) =>
       /\ pageCount >= 1
       /\ layout = calculateImposition(pageCount)
       /\ layout = SS_calculateImposition(pageCount)
       /\ layout = QB_calculateImposition(pageCount)
  /\ (formatId = "un-impose" /\ pc \in { "compose", "save", "done" }) =>
       LET L == 2 * pageCount
       IN /\ L > 0 /\ L % 4 = 0
          /\ reverseImposition(L) = PlanSlots(calculateImposition(L))
          /\ reverseImposition(L) = PlanSlots(SS_calculateImposition(L))
          /\ reverseImposition(L) = PlanSlots(QB_calculateImposition(L))
          /\ pageMap = UI_pageMap(PlanSlots(calculateImposition(L)))

\* 6 pages in quarter-booklet: the plan has 2 mini-sheets with pages 7 and 8 blank, the
\* same plan the two other copies give
C26_Witness ==
  /\ formatId = "quarter-booklet" /\ pc = "compose" /\ pageCount = 6
  /\ layout.paddedPages = 8 /\ Len(layout.sheets) = 2
  /\ layout.sheets[1] = [ front |-> [ left |-> null, right |-> 1 ],
                          back |-> [ left |-> 2, right |-> null ] ]
  /\ layout.sheets[2] = [ front |-> [ left |-> 6, right |-> 3 ],
                          back |-> [ left |-> 4, right |-> 5 ] ]
  /\ layout = calculateImposition(6) /\ layout = SS_calculateImposition(6)

\* ------------------------------------------------------------------ C27
\* the (imposed face index, half) pairs the output pages are taken from
SourcesUsed == { << faces[p][1].page - 1, faces[p][1].half >> : p \in 1..Len(faces) }

\* C27: un-impose mapping is total and one-to-one: for every L that is a positive
\* multiple of 4, reverseImposition(L) is a permutation of 1..L, so the page map has an
\* entry for every linear page 1..L (the skip on a missing mapping is never taken), the
\* output has exactly L = 2 * imposedPageCount pages in increasing linear order, every
\* imposed face index used is in 0..imposedPageCount-1, and every (face, half) pair is
\* the source of exactly one output page.
C27_MappingBijective ==
  (formatId = "un-impose" /\ pc \in { "compose", "save", "done" }) =>
    LET L == 2 * pageCount
        order == reverseImposition(L)
    IN /\ L > 0 /\ L % 4 = 0
       /\ Len(order) = L
       /\ { order[k] : k \in 1..L } = 1..L
       /\ DOMAIN pageMap = 1..L
       /\ Len(faces) = idx
       /\ (pc # "compose") => Len(faces) = L
       /\ \A p \in 1..Len(faces) :
            /\ Len(faces[p]) = 1
            /\ order[2 * (faces[p][1].page - 1) + (IF faces[p][1].half = "left" THEN 1 ELSE 2)] = p
            /\ faces[p][1].page - 1 \in 0..(pageCount - 1)
            /\ faces[p][1].half \in { "left", "right" }
       /\ Cardinality(SourcesUsed) = Len(faces)
       /\ (pc # "compose") => SourcesUsed = (0..(pageCount - 1)) \X { "left", "right" }

\* 4 imposed pages: 8 output pages, one from each half of each imposed page; linear
\* page 1 is the right half of imposed page 0, linear page 8 its left half
C27_Witness ==
  /\ formatId = "un-impose" /\ pc = "done" /\ pageCount = 4 /\ Len(faces) = 8
  /\ DOMAIN pageMap = 1..8
  /\ faces[1][1].page = 1 /\ faces[1][1].half = "right"
  /\ faces[8][1].page = 1 /\ faces[8][1].half = "left"
  /\ Cardinality(SourcesUsed) = 8

\* ------------------------------------------------------------------ C28
\* the adjacency of the page numbers of sheet i (0-based) of S sheets, before blanking
FoldAdjacent(u, i, S, padded) ==
  /\ u.front.left + u.front.right = padded + 1
  /\ u.back.left + u.back.right = padded + 1
  /\ u.back.left = u.front.right + 1
  /\ u.back.right = u.front.left - 1
  /\ (i = 0) => (u.front.right = 1 /\ u.front.left = padded)
  /\ (i = S - 1) => (u.back.left = padded \div 2 /\ u.back.right = (padded \div 2) + 1)

\* C28: saddle-stitch fold adjacency: for every n >= 1 and every sheet i, before
\* blanking, front.left + front.right = padded + 1 and back.left + back.right =
\* padded + 1, back.left = front.right + 1 and back.right = front.left - 1, sheet 0
\* carries pages 1 and padded on its front, and the innermost sheet's back carries the
\* centre spread (padded/2, padded/2 + 1); the plan holds these numbers, blanked beyond n.
C28_FoldAdjacency ==
  (formatId = "saddle-stitch" /\ Planned) =>
    LET n == pageCount
        padded == layout.paddedPages
        S == Len(layout.sheets)
    IN /\ n >= 1 /\ S >= 1 /\ padded = 4 * S
       /\ \A i \in 0..(S - 1) :
            LET u == SS_sheet(i, padded, padded)
                v == calculateImposition(padded).sheets[i + 1]
                s == layout.sheets[i + 1]
            IN /\ FoldAdjacent(u, i, S, padded)
               /\ FoldAdjacent(v, i, S, padded)
               /\ s.front.left = BlankBeyond(u.front.left, n)
               /\ s.front.right = BlankBeyond(u.front.right, n)
               /\ s.back.left = BlankBeyond(u.back.left, n)
               /\ s.back.right = BlankBeyond(u.back.right, n)

\* 5 pages, padded to 8: sheet 0 is (8 blank, 1 | 2, 7 blank), the innermost sheet 1 is
\* (6 blank, 3 | 4, 5) with the centre spread 4, 5 on its back
C28_Witness ==
  /\ formatId = "saddle-stitch" /\ pc = "create" /\ pageCount = 5
  /\ layout.paddedPages = 8 /\ Len(layout.sheets) = 2
  /\ layout.sheets[1].front = [ left |-> null, right |-> 1 ]
  /\ layout.sheets[1].back = [ left |-> 2, right |-> null ]
  /\ layout.sheets[2].front = [ left |-> null, right |-> 3 ]
  /\ layout.sheets[2].back = [ left |-> 4, right |-> 5 ]

\* ------------------------------------------------------------------ C22
\* position of a stage in the order loading, processing, composing, saving, complete
StageRank(stage) ==
  CASE stage = "loading" -> 1
    [] stage = "processing" -> 2
    [] stage = "composing" -> 3
    [] stage = "saving" -> 4
    [] stage = "complete" -> 5

\* percent of a <= percent of b
PercentLeq(a, b) == a.num * b.den <= b.num * a.den

\* the events delivered so far: percent never decreases and stays in 0..100, stages
\* never go back
Monotonic(evs) ==
  /\ \A k \in 1..Len(evs) :
       /\ evs[k].den > 0
       /\ 0 <= evs[k].num /\ evs[k].num <= 100 * evs[k].den
       /\ evs[k].stage \in { "loading", "processing", "composing", "saving", "complete" }
  /\ \A k \in 1..(Len(evs) - 1) :
       /\ PercentLeq(evs[k], evs[k + 1])
       /\ StageRank(evs[k].stage) <= StageRank(evs[k + 1].stage)

\* C22: monotonic progress: in every successful run of any of the seven formats the
\* percent values delivered to the progress sink are non-decreasing and stay within
\* 0..100, the stages appear in the order loading, processing, composing, saving,
\* complete with none revisited, and the last event is 'complete' with percent 100,
\* delivered exactly once; a run that fails never delivers 'complete'.
C22_MonotonicProgress ==
  /\ Monotonic(events)
  /\ (pc = "done" /\ sink) =>
       /\ Len(events) >= 1
       /\ events[1] = Ev("loading", 10, 1)
       /\ events[Len(events)] = Ev("complete", 100, 1)
       /\ Cardinality({ k \in 1..Len(events) : events[k].stage = "complete" }) = 1
       /\ \E k \in 1..Len(events) : events[k].stage = "processing"
       /\ \E k \in 1..Len(events) : events[k].stage = "composing"
       /\ \E k \in 1..Len(events) : events[k].stage = "saving"
  /\ (pc # "done") => \A k \in 1..Len(events) : events[k].stage # "complete"
  /\ (~sink) => events = << >>

\* a 1-page saddle-stitch run with a sink: 10, 25, 30, 40, 45, 65, 85, 90, 100
C22_Witness ==
  /\ formatId = "saddle-stitch" /\ pc = "done" /\ pageCount = 1 /\ sink
  /\ events = << Ev("loading", 10, 1), Ev("loading", 25, 1), Ev("processing", 30, 1),
                 Ev("processing", 40, 1), Ev("composing", 45, 1), Ev("composing", 130, 2),
                 Ev("composing", 170, 2), Ev("saving", 90, 1), Ev("complete", 100, 1) >>

\* ------------------------------------------------------------------ C23
\* the one error a run on n pages of size sz raises for format f, "" when it raises none;
\* nothing in it depends on the sink
OutcomeError(f, n, sz) ==
  IF f \notin SevenFormats THEN "Unknown format: " \o f
  ELSE IF n = 0 THEN "The PDF contains no pages"
  ELSE IF f = "un-impose" /\ sz[1] < sz[2] THEN NotLandscape
  ELSE IF f = "un-impose" /\ n % 2 = 1 THEN InvalidImposition(n)
  ELSE IF f \in { "mini-zine", "half-fold", "accordion" } /\ n > MaxPagesOf(f)
    THEN PageCountError(f)
  ELSE ""

\* the output faces of a run on n pages for format f after k compose steps; nothing in
\* it depends on the sink
OutcomeFaces(f, n, k) ==
  CASE f = "saddle-stitch" ->
         LET L == SS_calculateImposition(n)
             side(j) == IF j % 2 = 1 THEN L.sheets[(j + 1) \div 2].front
                                     ELSE L.sheets[j \div 2].back
         IN [ j \in 1..k |-> addImposedPage(side(j).left, side(j).right) ]
    [] f = "quarter-booklet" ->
         LET L == QB_calculateImposition(n)
         IN FlatSeq([ j \in 1..k |-> << QB_frontPage(L, j - 1), QB_backPage(L, j - 1) >> ])
    [] f = "two-up-proof" -> [ j \in 1..k |-> TU_spread(n, j - 1) ]
    [] f = "mini-zine" ->
         SubSeq(<< MZ_side(n, FRONT_LAYOUT), MZ_side(n, BACK_LAYOUT) >>, 1, k)
    [] f = "half-fold" -> SubSeq(<< HF_frontSheet(n), HF_backSheet(n) >>, 1, k)
    [] f = "accordion" ->
         IF k = 0 THEN << >>
         ELSE IF n <= 4 THEN << AC_single(n) >>
         ELSE IF k = 1 THEN << AC_front(n), << >> >>
         ELSE << AC_front(n), AC_back(n) >>
    [] f = "un-impose" ->
         LET map == UI_pageMap(reverseImposition(2 * n))
         IN [ j \in 1..k |-> UI_extract(map[j]) ]
    [] OTHER -> << >>

C23_WitnessWithSink ==
  /\ formatId = "accordion" /\ pageCount = 5 /\ sink /\ pc = "done"
  /\ events # << >>
  /\ faces = << AC_front(5), AC_back(5) >>
  /\ error = ""

\* ------------------------------------------------------------------ C25
\* the unrotated centred origin of a draw: the corner of its box plus the centring offsets
Origin(d) ==
  [ x |-> RatAdd(RatInt(d.x), d.opts.offsetX.val),
    y |-> RatAdd(RatInt(d.y), d.opts.offsetY.val) ]

\* the area a draw covers, as [left, right] by [bottom, top]: a page rotated by 180
\* degrees about its origin extends to the left of and below it
Covered(d) ==
  IF d.rot
    THEN [ left |-> RatSub(d.opts.x, d.opts.width.val), right |-> d.opts.x,
           bottom |-> RatSub(d.opts.y, d.opts.height.val), top |-> d.opts.y ]
    ELSE [ left |-> d.opts.x, right |-> RatAdd(d.opts.x, d.opts.width.val),
           bottom |-> d.opts.y, top |-> RatAdd(d.opts.y, d.opts.height.val) ]

\* C25: 180-degree rotation keeps the box: in mini-zine and accordion a rotated slot is
\* drawn with its origin at (x + drawWidth, y + drawHeight), where (x, y) is the
\* unrotated centred origin, so the area covered by the rotated page is
\* [x, x + drawWidth] by [y, y + drawHeight], exactly the area an unrotated page of the
\* same size covers in that panel; an unrotated slot is drawn at (x, y).
C25_RotationKeepsBox ==
  (formatId \in { "mini-zine", "accordion" }) =>
    \A p \in 1..Len(faces) : \A k \in 1..Len(faces[p]) :
      LET d == faces[p][k]
          o == Origin(d)
          same == [ d EXCEPT !.rot = FALSE,
                             !.opts = drawPageOptions(d.x, d.y, d.w, d.h, d.fw, d.fh, FALSE,
                                                      srcSize[1], srcSize[2]) ]
      IN /\ d.rot =>
              /\ d.opts.x = RatAdd(o.x, d.opts.width.val)
              /\ d.opts.y = RatAdd(o.y, d.opts.height.val)
         /\ ~d.rot => (d.opts.x = o.x /\ d.opts.y = o.y)
         /\ Covered(d) = [ left |-> o.x, right |-> RatAdd(o.x, d.opts.width.val),
                           bottom |-> o.y, top |-> RatAdd(o.y, d.opts.height.val) ]
         /\ same.opts.width = d.opts.width /\ same.opts.height = d.opts.height
         /\ Covered(d) = Covered(same)

\* a finished mini-zine run on 200x792 pages: a rotated page sits centred in its panel
\* with a positive horizontal offset, and its origin is the opposite corner
C25_Witness ==
  /\ formatId = "mini-zine" /\ pc = "done" /\ pageCount = 8
  /\ \E p \in 1..Len(faces) : \E k \in 1..Len(faces[p]) :
       /\ faces[p][k].rot
       /\ faces[p][k].opts.offsetX.val.n > 0
       /\ RatLess(Origin(faces[p][k]).x, faces[p][k].opts.x)
       /\ RatLess(Origin(faces[p][k]).y, faces[p][k].opts.y)

\* a finished accordion run with a rotated panel
C25_WitnessAccordion ==
  /\ formatId = "accordion" /\ pc = "done"
  /\ \E p \in 1..Len(faces) : \E k \in 1..Len(faces[p]) :
       /\ faces[p][k].rot
       /\ RatLess(Origin(faces[p][k]).x, faces[p][k].opts.x)

\* ------------------------------------------------------------------ C29
\* the errors of the page-count checks: empty document, page count out of range,
\* extracted page count not a multiple of 4
PageCountErrors ==
  { "The PDF contains no pages" }
    \cup { PageCountError(f) : f \in { "mini-zine", "half-fold", "accordion" } }
    \cup { InvalidImposition(k) : k \in 0..(2 * MaxPages + 2) }

\* the run has got past its input checks or has failed on one
Checked == pc \in { "create", "compose", "save", "done", "failed" }

\* the document passes un-impose's orientation check (every document for other formats)
Oriented == processor = "UI" => ~(srcSize[1] < srcSize[2])

\* C29: validate agrees with process: for each of the seven formats and every page
\* count c >= 0, the format's validate(c) returns valid = true exactly when processing a
\* correctly oriented document of c pages with that format does not fail on a
\* page-count check (empty document, page count out of range, or extracted page count
\* not a multiple of 4).
C29_ValidateAgrees ==
  (formatId \in SevenFormats /\ Checked /\ Oriented) =>
    (validate(processor, pageCount).valid <=> ~(pc = "failed" /\ error \in PageCountErrors))

\* the same for the six formats other than un-impose
C29_ValidateAgreesButUnImpose ==
  (formatId \in SevenFormats \ { "un-impose" } /\ Checked) =>
    (validate(processor, pageCount).valid <=> ~(pc = "failed" /\ error \in PageCountErrors))

\* one landscape imposed page given to un-impose: validate accepts the count, process
\* rejects it
C29_Witness ==
  /\ formatId = "un-impose" /\ pageCount = 1 /\ srcSize = << 792, 612 >>
  /\ pc = "failed"
  /\ error = "Invalid imposed PDF: 2 extracted pages is not a multiple of 4"
  /\ UI_validate(1).valid

\* ================================================================ the app
\* App.svelte: the state of the component, its handlers, and the calls of
\* handleFileSelect in flight. A call of processPdf is followed here only through the
\* moments at which it writes to the component: the progress callback and the return
\* or throw. The tools and files offered to the user:
Tools == { "saddle-stitch", "half-fold" }

Files == { "four.pdf", "five.pdf" }

\* sourcePdf.getPageCount() of a file
getPageCount(file) == IF file = "four.pdf" THEN 4 ELSE 5

\* the size of the pages of a file: US letter, portrait
getSize(file) == << LETTER_WIDTH, LETTER_HEIGHT >>

\* the message of the TypeError raised by selectedTool.id when selectedTool is null
NullToolError == "Cannot read properties of null (reading 'id')"

appState ==
  IF selectedTool = nullRef THEN "selecting"
  ELSE IF sourceFile = nullRef THEN "uploading"
  ELSE IF progress.stage = "error" THEN "error"
  ELSE IF progress.stage = "complete" THEN "complete"
  ELSE IF progress.stage # "idle" THEN "processing"
  ELSE "uploading"

isProcessing ==
  /\ progress.stage # "idle"
  /\ progress.stage # "complete"
  /\ progress.stage # "error"

\* no call of handleFileSelect is in flight
Quiet == \A s \in Slots : runs[s] = noRun

\* resetProcessing: the four assignments. The calls in flight are not told and go on;
\* each loses its mark `alone` (history only: no other call and no reset since its start)
resetProcessing ==
  /\ sourceFile' = nullRef
  /\ outputPdf' = noOutput
  /\ appError' = nullRef
  /\ progress' = idleProgress
  /\ runs' = [ s \in Slots |->
                 IF runs[s] = noRun THEN noRun ELSE [ runs[s] EXCEPT !.alone = FALSE ] ]

\* the tool selector is shown only in state 'selecting'
handleToolSelect ==
  /\ appState = "selecting"
  /\ \E tool \in Tools : selectedTool' = tool
  /\ resetProcessing
  /\ UNCHANGED runVars

\* the back button is shown whenever a tool is selected
handleBackToTools ==
  /\ selectedTool # nullRef
  /\ selectedTool' = nullRef
  /\ resetProcessing
  /\ UNCHANGED runVars

\* [try again], shown in state 'error'
handleReset ==
  /\ appState = "error"
  /\ resetProcessing
  /\ UNCHANGED << runVars, selectedTool >>

\* [same tool again], shown in state 'complete' with an output
handleSameToolAgain ==
  /\ appState = "complete" /\ outputPdf # noOutput
  /\ resetProcessing
  /\ UNCHANGED << runVars, selectedTool >>

\* [different tool], shown in state 'complete' with an output
handleProcessAnother ==
  /\ appState = "complete" /\ outputPdf # noOutput
  /\ selectedTool' = nullRef
  /\ resetProcessing
  /\ UNCHANGED runVars

\* handleFileSelect up to its first await, file.arrayBuffer(). The dropzone is shown in
\* state 'uploading' and is disabled while isProcessing
handleFileSelect ==
  /\ appState = "uploading" /\ ~isProcessing
  /\ selectedTool # nullRef
  /\ \E file \in Files, s \in Slots :
       /\ runs[s] = noRun
       /\ \A t \in Slots : t < s => runs[t] # noRun
       /\ sourceFile' = file
       /\ outputPdf' = noOutput
       /\ appError' = nullRef
       /\ runs' = [ t \in Slots |->
                      IF t = s THEN [ file |-> file, formatId |-> nullRef, at |-> "read",
                                      alone |-> Quiet ]
                      ELSE IF runs[t] = noRun THEN noRun
                      ELSE [ runs[t] EXCEPT !.alone = FALSE ] ]
  /\ UNCHANGED << runVars, selectedTool, progress >>

Catch_genericMessage(s, message) ==
  /\ appError' = message
  /\ progress' = [ stage |-> "error", percent |-> 0, message |-> "An error occurred" ]
  /\ runs' = [ runs EXCEPT ![s] = noRun ]
  /\ UNCHANGED << runVars, selectedTool, sourceFile, outputPdf >>

\* the catch block of handleFileSelect for a thrown Error with this message
Catch(s, message) ==
  /\ appError' = message
  /\ progress' = [ stage |-> "error", percent |-> 0, message |-> message ]
  /\ runs' = [ runs EXCEPT ![s] = noRun ]
  /\ UNCHANGED << runVars, selectedTool, sourceFile, outputPdf >>

\* the progress callback: progress = p
onProgress(s, p, at) ==
  /\ progress' = p
  /\ runs' = [ runs EXCEPT ![s].at = at ]
  /\ UNCHANGED << runVars, selectedTool, sourceFile, outputPdf, appError >>

\* percent of the last event a process delivers before it creates the output document
ComposingStart(f) ==
  IF getProcessor(f).process \in { "SS", "UI", "QB", "TU" } THEN 45 ELSE 40

\* file.arrayBuffer() resolved: selectedTool.id is read now, and processPdf runs up to
\* its first await: it throws for an unknown id, else process reports 'loading' 10
App_arrayBuffer(s) ==
  /\ runs[s].at = "read"
  /\ IF selectedTool = nullRef
       THEN Catch(s, NullToolError)
       ELSE IF getProcessor(selectedTool) = undefined
         THEN Catch(s, "Unknown format: " \o selectedTool)
         ELSE /\ progress' = [ stage |-> "loading", percent |-> 10, message |-> "Loading PDF..." ]
              /\ runs' = [ runs EXCEPT ![s].at = "load", ![s].formatId = selectedTool ]
              /\ UNCHANGED << runVars, selectedTool, sourceFile, outputPdf, appError >>

\* PDFDocument.load resolved: the input checks throw, or the events up to 'composing'
\* are delivered
App_loaded(s) ==
  /\ runs[s].at = "load"
  /\ LET f == runs[s].formatId
         e == OutcomeError(f, getPageCount(runs[s].file), getSize(runs[s].file))
     IN IF e # ""
          THEN Catch(s, e)
          ELSE onProgress(s, [ stage |-> "composing", percent |-> ComposingStart(f),
                               message |-> "Creating output document..." ], "compose")

\* the compose loop ran to its end: 'saving' 90 is delivered
App_composed(s) ==
  /\ runs[s].at = "compose"
  /\ onProgress(s, [ stage |-> "saving", percent |-> 90, message |-> "Saving PDF..." ], "save")

\* save resolved: 'complete' 100 is delivered, process returns and handleFileSelect
\* assigns outputPdf (one turn of the microtask queue: no user event in between)
App_saved(s) ==
  /\ runs[s].at = "save"
  /\ progress' = [ stage |-> "complete", percent |-> 100, message |-> "Complete!" ]
  /\ outputPdf' = << runs[s].formatId, runs[s].file >>
  /\ runs' = [ runs EXCEPT ![s] = noRun ]
  /\ UNCHANGED << runVars, selectedTool, sourceFile, appError >>

AppNext ==
  \/ handleToolSelect
  \/ handleBackToTools
  \/ handleFileSelect
  \/ handleReset
  \/ handleSameToolAgain
  \/ handleProcessAnother
  \/ \E s \in Slots : App_arrayBuffer(s)
  \/ \E s \in Slots : App_loaded(s)
  \/ \E s \in Slots : App_composed(s)
  \/ \E s \in Slots : App_saved(s)

AppSpec == Init /\ [][AppNext]_vars

\* ------------------------------------------------------------------ C24
\* the error a call in flight is about to raise on its input checks, "" when none
Failing(s) ==
  IF runs[s].at = "load"
    THEN OutcomeError(runs[s].formatId, getPageCount(runs[s].file), getSize(runs[s].file))
    ELSE ""

\* C24: orchestrator failure state: when a single run started by handleFileSelect (no
\* other call in flight and no reset during it) fails with an error, the app ends with
\* progress.stage = 'error', the stored error and progress.message equal to the thrown
\* error's message, outputPdf = null and appState = 'error'; it stays there until the
\* user resets (every step out of that state is a reset), and the reset returns it to
\* stage 'idle' with no source file, no output and no error, the dropzone shown and
\* enabled when a tool is still selected.
C24_FailureState ==
  [][ /\ \A s \in Slots :
           (runs[s].alone /\ Failing(s) # "" /\ runs'[s] = noRun) =>
             /\ progress' = [ stage |-> "error", percent |-> 0, message |-> Failing(s) ]
             /\ appError' = Failing(s)
             /\ outputPdf' = noOutput
             /\ appState' = "error"
             /\ Quiet'
      /\ (appState = "error" /\ Quiet) =>
           /\ progress' = idleProgress
           /\ sourceFile' = nullRef
           /\ outputPdf' = noOutput
           /\ appError' = nullRef
           /\ appState' = (IF selectedTool' = nullRef THEN "selecting" ELSE "uploading")
           /\ ~isProcessing'
    ]_vars

\* five pages given to half-fold, nothing else in flight: the app shows the error
C24_Witness ==
  /\ selectedTool = "half-fold" /\ sourceFile = "five.pdf" /\ Quiet
  /\ appState = "error"
  /\ appError = "Half-fold requires exactly 4 pages (or fewer to pad with blanks)"
  /\ progress = [ stage |-> "error", percent |-> 0, message |-> appError ]
  /\ outputPdf = noOutput

\* ------------------------------------------------------------------ C30
\* C30: no stale result in the UI: under every interleaving of the user's actions with
\* the progress callbacks and completions of the runs started by handleFileSelect,
\* whenever the app is in state 'complete' with a non-null outputPdf, that output was
\* produced by the currently selected tool applied to the currently selected source
\* file; and a run that was in flight when the user went back or reset changes neither
\* progress nor outputPdf afterwards: as long as no new file is selected the app stays
\* at stage 'idle' with no output and no error.
C30_NoStaleResult ==
  /\ (appState = "complete" /\ outputPdf # noOutput) =>
       outputPdf = << selectedTool, sourceFile >>
  /\ sourceFile = nullRef =>
       (progress = idleProgress /\ outputPdf = noOutput /\ appError = nullRef)

\* the user left a saddle-stitch run on four.pdf in flight, chose half-fold and
\* five.pdf, and the old run completed: its output is offered as the half-fold result
C30_Witness ==
  /\ selectedTool = "half-fold" /\ sourceFile = "five.pdf"
  /\ appState = "complete"
  /\ outputPdf = << "saddle-stitch", "four.pdf" >>

\* the user went back to the tool list and the run left in flight wrote its progress
C30_WitnessAfterBack ==
  /\ selectedTool = nullRef /\ sourceFile = nullRef
  /\ progress.stage = "complete" /\ outputPdf # noOutput

====
